---------------------------- MODULE Spec2Model ----------------------------
(***************************************************************************)
(* Moderation decision core of the group-management bot: the record store, *)
(* the flood / repeated-content detector, the content rule engine, the     *)
(* warning ladder and the entry-captcha state machine.                     *)
(*                                                                         *)
(* Texts are sequences of one-character strings, so that normalisation,    *)
(* substring matching and the similarity ratio are computed and not        *)
(* assumed.  Times are whole seconds.                                      *)
(***************************************************************************)
EXTENDS Integers, Sequences, FiniteSets, TLC

(***************************************************************************)
(* Bounds of the model.                                                    *)
(***************************************************************************)
MaxMsgs == 6        \* message evaluations in one behaviour
MaxElapsed == 101   \* seconds the detector's clock may advance in one behaviour
MaxWarnOps == 5     \* warning increments / resets in one behaviour
MixedMsgs == 2      \* message evaluations interleaved with the warning ladder
StartTime == 1000   \* the clock reading when the process starts
MaxCaptchaOps == 4  \* joins, answers and sweep runs in one behaviour
MaxCaptchaElapsed == 301  \* seconds the captcha clock may advance
MaxGateOps == 5     \* joins, button presses and channel changes in one behaviour
MaxSeverityMsgs == 4 \* message evaluations over all the kinds of message
MaxHistoryMsgs == 4 \* message evaluations on top of a stored history
MaxModerationOps == 5 \* increments, /resetwarnings commands and audit entries
MaxOverlapMsgs == 2  \* messages handled, by handlers that may overlap
MaxStorageOps == 3   \* warning, banned-word and audit operations on the two files
MaxFlagMsgs == 2     \* message evaluations under each setting of the feature flags
MaxLiveOps == 3     \* joins and answers in one behaviour with a periodic sweep

(***************************************************************************)
(* Program constants (src/config.py and literals of the code).             *)
(***************************************************************************)
FLOOD_LIMIT == 5
SPAM_THRESHOLD == 3
SimilarityNum == 8      \* MESSAGE_SIMILARITY_THRESHOLD = 0.8 = 8 / 10
SimilarityDen == 10
MAX_WARNINGS == 3
FloodWindow == 60
RecentCap == 10
ActionLogCap == 100
DefaultMaxFileSize == 20 * 1024 * 1024
CAPTCHA_TIMEOUT == 300
\* config.py reads the difficulty from the environment (default "medium");
\* "hard" is the setting whose captchas are both arithmetic and trivia
CAPTCHA_DIFFICULTY == "hard"

None == "None"

(***************************************************************************)
(* Characters and strings.                                                 *)
(***************************************************************************)
UpperLetters ==
    <<"A", "B", "C", "D", "E", "F", "G", "H", "I", "J", "K", "L", "M",
      "N", "O", "P", "Q", "R", "S", "T", "U", "V", "W", "X", "Y", "Z">>
LowerLetters ==
    <<"a", "b", "c", "d", "e", "f", "g", "h", "i", "j", "k", "l", "m",
      "n", "o", "p", "q", "r", "s", "t", "u", "v", "w", "x", "y", "z">>

\* str.lower() on one character
LowerChar(c) ==
    IF \E i \in 1..26 : UpperLetters[i] = c
    THEN LowerLetters[CHOOSE i \in 1..26 : UpperLetters[i] = c]
    ELSE c

\* str.lower()
Lower(s) == [i \in 1..Len(s) |-> LowerChar(s[i])]

\* the characters \s matches and str.strip() removes
IsSpace(c) == c \in {" ", "\t", "\n", "\r"}

RECURSIVE LStrip(_)
LStrip(s) == IF s # <<>> /\ IsSpace(Head(s)) THEN LStrip(Tail(s)) ELSE s

RECURSIVE RStrip(_)
RStrip(s) ==
    IF s # <<>> /\ IsSpace(s[Len(s)]) THEN RStrip(SubSeq(s, 1, Len(s) - 1)) ELSE s

\* str.strip()
Strip(s) == RStrip(LStrip(s))

\* re.sub(r'\s+', ' ', s): every maximal run of whitespace becomes one blank
RECURSIVE CollapseWhitespace(_)
CollapseWhitespace(s) ==
    IF s = <<>> THEN <<>>
    ELSE IF IsSpace(Head(s))
         THEN <<" ">> \o CollapseWhitespace(LStrip(s))
         ELSE <<Head(s)>> \o CollapseWhitespace(Tail(s))

\* the character class of re.sub(r'[!@#$%^&*(),.?":{}|<>]', '', s)
Punctuation ==
    {"!", "@", "#", "$", "%", "^", "&", "*", "(", ")", ",", ".", "?", "\"",
     ":", "{", "}", "|", "<", ">"}

RemovePunctuation(s) == SelectSeq(s, LAMBDA c : c \notin Punctuation)

\* sub in s (Python's substring test)
Contains(s, sub) ==
    \E i \in 1..(Len(s) - Len(sub) + 1) : SubSeq(s, i, i + Len(sub) - 1) = sub

StartsWithAt(s, i, pre) ==
    /\ i + Len(pre) - 1 <= Len(s)
    /\ SubSeq(s, i, i + Len(pre) - 1) = pre

EndsWith(s, suf) ==
    /\ Len(suf) <= Len(s)
    /\ SubSeq(s, Len(s) - Len(suf) + 1, Len(s)) = suf

\* dict.get(key, default) on a record whose fields may be absent
Get(rec, key, default) == IF key \in DOMAIN rec THEN rec[key] ELSE default

\* d[key] = value on a map held as a function over its stored keys
Put(map, key, value) ==
    [k \in (DOMAIN map) \cup {key} |-> IF k = key THEN value ELSE map[k]]

\* a faulty variant: the oldest n are kept
FirstN(lst, n) == IF Len(lst) <= n THEN lst ELSE SubSeq(lst, 1, n)

\* lst[-n:]
LastN(lst, n) == IF Len(lst) <= n THEN lst ELSE SubSeq(lst, Len(lst) - n + 1, Len(lst))

(***************************************************************************)
(* difflib.SequenceMatcher(None, a, b).ratio() without junk: the longest   *)
(* matching block, earliest in a and then earliest in b, then the same to  *)
(* the left and to the right of it; ratio = 2 * matches / (|a| + |b|).     *)
(***************************************************************************)
RECURSIVE MatchLen(_, _, _, _)
MatchLen(a, b, i, j) ==
    IF i <= Len(a) /\ j <= Len(b) /\ a[i] = b[j]
    THEN 1 + MatchLen(a, b, i + 1, j + 1)
    ELSE 0

LongestMatch(a, b) ==
    LET blocks == {<<MatchLen(a, b, i, j), i, j>> : i \in 1..Len(a), j \in 1..Len(b)}
        k == CHOOSE n \in {t[1] : t \in blocks} : \A t \in blocks : t[1] <= n
        longest == {t \in blocks : t[1] = k}
        i == CHOOSE n \in {t[2] : t \in longest} : \A t \in longest : n <= t[2]
        j == CHOOSE n \in {t[3] : t \in longest} :
                /\ <<k, i, n>> \in longest
                /\ \A t \in longest : t[2] = i => n <= t[3]
    IN  [i |-> i, j |-> j, k |-> k]

RECURSIVE MatchingChars(_, _)
MatchingChars(a, b) ==
    IF a = <<>> \/ b = <<>> THEN 0
    ELSE LET m == LongestMatch(a, b)
         IN  IF m.k = 0 THEN 0
             ELSE MatchingChars(SubSeq(a, 1, m.i - 1), SubSeq(b, 1, m.j - 1))
                  + m.k
                  + MatchingChars(SubSeq(a, m.i + m.k, Len(a)),
                                  SubSeq(b, m.j + m.k, Len(b)))

\* similarity >= self.similarity_threshold
SimilarityAtLeastThreshold(a, b) ==
    IF Len(a) + Len(b) = 0
    THEN SimilarityDen >= SimilarityNum
    ELSE 2 * MatchingChars(a, b) * SimilarityDen >= SimilarityNum * (Len(a) + Len(b))

\* SpamDetector._clean_message
clean_message(message) ==
    RemovePunctuation(CollapseWhitespace(Lower(Strip(message))))

(***************************************************************************)
(* URL extraction: re.findall of                                           *)
(*   http[s]?://(?:[a-zA-Z]|[0-9]|[$-_@.&+]|[!*\\(\\),]|(?:%XX))+          *)
(* Among the printable ASCII characters the class excludes exactly the     *)
(* blank, the double quote, the number sign, the backquote and the braces, *)
(* bar and tilde (the range $-_ covers the rest).  The backquote cannot be *)
(* written in a string here and occurs in no text of the model.            *)
(***************************************************************************)
NonUrlChars == {" ", "\t", "\n", "\r", "\"", "#", "{", "|", "}", "~"}

IsUrlChar(c) == c \notin NonUrlChars

HttpPrefix == <<"h", "t", "t", "p", ":", "/", "/">>
HttpsPrefix == <<"h", "t", "t", "p", "s", ":", "/", "/">>

\* the last index of the run of URL characters that starts at i
RECURSIVE UrlRunEnd(_, _)
UrlRunEnd(s, i) ==
    IF i + 1 <= Len(s) /\ IsUrlChar(s[i + 1]) THEN UrlRunEnd(s, i + 1) ELSE i

RECURSIVE FindUrlsFrom(_, _)
FindUrlsFrom(s, i) ==
    IF i > Len(s) THEN <<>>
    ELSE LET body == IF StartsWithAt(s, i, HttpsPrefix) THEN i + Len(HttpsPrefix)
                     ELSE IF StartsWithAt(s, i, HttpPrefix) THEN i + Len(HttpPrefix)
                     ELSE 0
         IN  IF body = 0 \/ body > Len(s) \/ ~IsUrlChar(s[body])
             THEN FindUrlsFrom(s, i + 1)
             ELSE <<SubSeq(s, i, UrlRunEnd(s, body))>>
                  \o FindUrlsFrom(s, UrlRunEnd(s, body) + 1)

FindUrls(s) == FindUrlsFrom(s, 1)

\* urlparse(url).netloc of an http(s) URL: from after "//" to the first / ? or #
RECURSIVE NetlocEnd(_, _)
NetlocEnd(s, i) ==
    IF i + 1 <= Len(s) /\ s[i + 1] \notin {"/", "?", "#"} THEN NetlocEnd(s, i + 1) ELSE i

Netloc(url) ==
    LET body == IF StartsWithAt(url, 1, HttpsPrefix) THEN Len(HttpsPrefix) + 1
                ELSE Len(HttpPrefix) + 1
    IN  IF body > Len(url) \/ url[body] \in {"/", "?", "#"} THEN <<>>
        ELSE SubSeq(url, body, NetlocEnd(url, body))

\* suspicious_domains of SpamDetector.has_suspicious_links
BasicSuspiciousDomains ==
    << <<"b", "i", "t", ".", "l", "y">>,
       <<"t", "i", "n", "y", "u", "r", "l", ".", "c", "o", "m">>,
       <<"s", "h", "o", "r", "t", "u", "r", "l", ".", "a", "t">>,
       <<"o", "w", ".", "l", "y">>,
       <<"t", ".", "c", "o">>,
       <<"g", "o", "o", ".", "g", "l">>,
       <<"b", "u", "f", "f", ".", "l", "y">> >>

\* ContentFilter.suspicious_domains, in the order the dict is iterated
suspicious_domains ==
    << [category |-> "shorteners",
        link_reason |-> "Suspicious shorteners link",
        domains |->
          << <<"b", "i", "t", ".", "l", "y">>,
             <<"t", "i", "n", "y", "u", "r", "l", ".", "c", "o", "m">>,
             <<"s", "h", "o", "r", "t", "u", "r", "l", ".", "a", "t">>,
             <<"o", "w", ".", "l", "y">>,
             <<"t", ".", "c", "o">>,
             <<"g", "o", "o", ".", "g", "l">>,
             <<"b", "u", "f", "f", ".", "l", "y">>,
             <<"t", "i", "n", "y", ".", "c", "c">>,
             <<"i", "s", ".", "g", "d">>,
             <<"v", ".", "g", "d">> >>],
       [category |-> "gambling",
        link_reason |-> "Suspicious gambling link",
        domains |->
          << <<"b", "e", "t", "3", "6", "5", ".", "c", "o", "m">>,
             <<"p", "o", "k", "e", "r", "s", "t", "a", "r", "s", ".", "c", "o", "m">>,
             <<"8", "8", "8", "c", "a", "s", "i", "n", "o", ".", "c", "o", "m">>,
             <<"b", "e", "t", "f", "a", "i", "r", ".", "c", "o", "m">>,
             <<"w", "i", "l", "l", "i", "a", "m", "h", "i", "l", "l", ".", "c", "o", "m">>,
             <<"l", "a", "d", "b", "r", "o", "k", "e", "s", ".", "c", "o", "m">>,
             <<"b", "w", "i", "n", ".", "c", "o", "m">> >>],
       [category |-> "adult",
        link_reason |-> "Suspicious adult link",
        domains |->
          << <<"p", "o", "r", "n", "h", "u", "b", ".", "c", "o", "m">>,
             <<"x", "v", "i", "d", "e", "o", "s", ".", "c", "o", "m">>,
             <<"x", "n", "x", "x", ".", "c", "o", "m">>,
             <<"r", "e", "d", "t", "u", "b", "e", ".", "c", "o", "m">>,
             <<"y", "o", "u", "p", "o", "r", "n", ".", "c", "o", "m">>,
             <<"t", "u", "b", "e", "8", ".", "c", "o", "m">>,
             <<"s", "p", "a", "n", "k", "b", "a", "n", "g", ".", "c", "o", "m">> >>],
       [category |-> "scam",
        link_reason |-> "Suspicious scam link",
        domains |->
          << <<"e", "a", "r", "n", "-", "m", "o", "n", "e", "y", "-", "f", "a", "s", "t", ".", "c", "o", "m">>,
             <<"f", "r", "e", "e", "-", "b", "i", "t", "c", "o", "i", "n", ".", "c", "o", "m">>,
             <<"g", "e", "t", "-", "r", "i", "c", "h", "-", "q", "u", "i", "c", "k", ".", "n", "e", "t">>,
             <<"m", "i", "r", "a", "c", "l", "e", "-", "c", "u", "r", "e", ".", "o", "r", "g">>,
             <<"w", "e", "i", "g", "h", "t", "-", "l", "o", "s", "s", "-", "s", "e", "c", "r", "e", "t", ".", "c", "o", "m">> >>] >>

\* ContentFilter.default_banned_words
default_banned_words ==
    << <<"s", "p", "a", "m">>,
       <<"s", "c", "a", "m">>,
       <<"f", "a", "k", "e">>,
       <<"f", "r", "a", "u", "d">>,
       <<"c", "h", "e", "a", "t">>,
       <<"h", "a", "c", "k">>,
       <<"b", "u", "y", " ", "n", "o", "w">>,
       <<"l", "i", "m", "i", "t", "e", "d", " ", "t", "i", "m", "e">>,
       <<"a", "c", "t", " ", "f", "a", "s", "t">>,
       <<"e", "x", "c", "l", "u", "s", "i", "v", "e", " ", "o", "f", "f", "e", "r">>,
       <<"f", "r", "e", "e", " ", "m", "o", "n", "e", "y">>,
       <<"e", "a", "s", "y", " ", "m", "o", "n", "e", "y">>,
       <<"g", "u", "a", "r", "a", "n", "t", "e", "e", "d", " ", "p", "r", "o", "f", "i", "t">>,
       <<"p", "o", "r", "n">>,
       <<"x", "x", "x">>,
       <<"a", "d", "u", "l", "t">>,
       <<"n", "s", "f", "w">>,
       <<"n", "u", "d", "e">>,
       <<"b", "e", "t">>,
       <<"c", "a", "s", "i", "n", "o">>,
       <<"p", "o", "k", "e", "r">>,
       <<"g", "a", "m", "b", "l", "i", "n", "g">>,
       <<"l", "o", "t", "t", "e", "r", "y">> >>

dangerous_extensions ==
    << <<".", "e", "x", "e">>,
       <<".", "b", "a", "t">>,
       <<".", "c", "m", "d">>,
       <<".", "s", "c", "r">>,
       <<".", "p", "i", "f">>,
       <<".", "c", "o", "m">>,
       <<".", "j", "a", "r">>,
       <<".", "s", "h">> >>

SeqRange(s) == {s[i] : i \in 1..Len(s)}


(***************************************************************************)
(* The inputs of the model.                                                *)
(***************************************************************************)
Users == {"u1", "u2"}
Groups == {"g1", "g2"}

\* the (user, group) pairs whose messages the detector sees
DetectorUsers == {"u1"}
DetectorGroups == {"g1"}

TextSpam == <<"s", "p", "a", "m">>
TextSpamShout == <<" ", "S", "p", "a", "m", "!">>
TextHi == <<"h", "i">>
TextSpamLink == <<"s", "p", "a", "m", " ", "h", "t", "t", "p", ":", "/", "/", "t", ".", "c", "o", "/", "a">>

NoMedia ==
    [photo |-> FALSE, video |-> FALSE, audio |-> FALSE, animation |-> FALSE,
     sticker |-> FALSE, has_document |-> FALSE, file_size |-> 0, file_name |-> <<>>,
     size_is_none |-> FALSE, name_is_none |-> FALSE]

NoForward == [forward_date |-> FALSE, forward_chat_type |-> None, forward_from |-> None]

\* a telegram Message: its text, its attachments, where it was forwarded from
Msg(text, media, fwd) == [text |-> text, media |-> media, fwd |-> fwd]

\* the messages the detector is run on: two normalised texts
DetectorMessages ==
    { Msg(TextSpam, NoMedia, NoForward),
      Msg(TextSpamShout, NoMedia, NoForward),
      Msg(TextHi, NoMedia, NoForward),
      Msg(TextHi, [NoMedia EXCEPT !.photo = TRUE],
          [forward_date |-> TRUE, forward_chat_type |-> "channel", forward_from |-> None]) }

Messages ==
    { Msg(TextSpam, NoMedia, NoForward),
      Msg(TextSpamShout, NoMedia, NoForward),
      Msg(TextHi, NoMedia, NoForward),
      Msg(TextSpamLink, NoMedia, NoForward),
      Msg(TextHi, [NoMedia EXCEPT !.photo = TRUE],
          [forward_date |-> TRUE, forward_chat_type |-> "channel", forward_from |-> None]) }

\* seconds by which the clock advances between two events of the detector
FloodSteps == {40, 61}

(***************************************************************************)
(* Stored group records.  A record is a function over the keys it holds,   *)
(* so that an absent key and a key holding its default are different.      *)
(***************************************************************************)
DefaultSettings ==
    [anti_spam_enabled |-> TRUE, welcome_enabled |-> TRUE, flood_protection |-> TRUE]

StrictGroup ==
    [welcome_message |-> None,
     settings |-> DefaultSettings,
     admins |-> <<>>,
     banned_words |-> << <<"S", "p", "a", "m">> >>,
     link_policy |-> "strict",
     whitelisted_domains |-> << <<"e", "x", "a", "m", "p", "l", "e", ".", "c", "o", "m">> >>,
     media_policy |-> [block_images |-> TRUE],
     forward_policy |-> "restrict"]

WordsOnlyGroup ==
    [welcome_message |-> None,
     settings |-> DefaultSettings,
     admins |-> <<>>,
     banned_words |-> << <<"s", "p", "a", "m">> >>]

\* the contents groups.json may have when the detector starts
InitialGroupsFiles ==
    { <<>>,
      [g \in {"g1"} |-> StrictGroup] }

VARIABLES
    now,            \* the wall clock, in seconds
    spam_file,      \* spam_data.json: "<group>_<user>" -> moderation state
    groups_file,    \* groups.json: group id -> stored group record
    verdict,        \* what the last check_message returned, and for whom
    warn_ret,       \* what the last warning-ladder call returned, and for whom
    flood_seq,      \* per key: evaluations so far, time of the first, of the last reset
    ladder,         \* per key: increments since the key was fresh or reset, resets
    n_checked,      \* message evaluations so far
    n_warn_ops,     \* warning-ladder calls so far
    pending_users,  \* CaptchaManager.pending_users, in the dict's order
    chat_status,    \* the platform's membership status of each user in each group
    handler,        \* the captcha call in flight: its position and its locals
    ret,            \* what the last captcha call returned, and what it saw
    sweep,          \* the expiry sweep: its position, its list, what it did
    outcomes,       \* per captcha: restriction lifted, solved, banned, removed
    n_created,      \* captchas created so far
    n_answers,      \* answers submitted so far
    n_sweeps,       \* sweep runs started so far
    config,               \* config.py: the settings read from the environment
    pending_verification, \* SubscriptionChecker.pending_verification, in dict order
    channel_status,       \* the platform's status of each user in each channel
    messages,             \* the requirement messages showing in the groups
    task,                 \* the subscription call in flight: position and locals
    gate_ret,             \* what the last subscription call returned and saw
    n_gate_ops,           \* subscription-gate calls and channel changes so far
    in_flight,      \* the handle_messages calls in flight: position and locals
    evaluated,      \* per key: the evaluations made, as the handlers made them
    filter_ret,     \* what the last content check returned, and on what
    handled,        \* what the last handle_messages call did about its verdict
    challenge,      \* the last arithmetic captcha drawn, with the options offered
    command_ret,    \* what the last /ban, /mute or /kick command did
    sweepers        \* the expiry sweeps that may overlap: position, list, deeds

\* the feature flags config.py reads from the environment when it is imported
ENABLE_MEDIA_FILTERING == config.ENABLE_MEDIA_FILTERING
ENABLE_LINK_FILTERING == config.ENABLE_LINK_FILTERING
ENABLE_BANNED_WORDS == config.ENABLE_BANNED_WORDS

detector_vars ==
    <<spam_file, groups_file, verdict, warn_ret, flood_seq, ladder,
      n_checked, n_warn_ops>>

captcha_vars ==
    <<pending_users, chat_status, handler, ret, sweep, outcomes, n_created,
      n_answers, n_sweeps>>

subscription_vars ==
    <<config, pending_verification, channel_status, messages, task, gate_ret,
      n_gate_ops>>

call_vars == <<handled, challenge, command_ret, sweepers>>

handling_vars == <<in_flight, evaluated, filter_ret, call_vars>>

vars == <<now, detector_vars, captcha_vars, subscription_vars, handling_vars>>

Key(user_id, group_id) == <<group_id, user_id>>

(***************************************************************************)
(* StorageManager                                                          *)
(***************************************************************************)
\* a faulty variant: the default record spells out captcha_enabled
default_group_with_captcha ==
    [welcome_message |-> None,
     settings |-> [anti_spam_enabled |-> TRUE, welcome_enabled |-> TRUE,
                   flood_protection |-> TRUE, captcha_enabled |-> FALSE],
     admins |-> <<>>,
     banned_words |-> <<>>]

default_group ==
    [welcome_message |-> None,
     settings |-> DefaultSettings,
     admins |-> <<>>,
     banned_words |-> <<>>]

get_group_data(group_id) ==
    IF group_id \in DOMAIN groups_file THEN groups_file[group_id] ELSE default_group

default_spam_data ==
    [message_count |-> 0, last_message_time |-> 0, recent_messages |-> <<>>,
     warnings |-> 0]

\* a faulty variant: the read never sees what was stored
SpamDataInMissingRecord(file, user_id, group_id) == default_spam_data

\* get_spam_data on the file contents `file`
SpamDataIn(file, user_id, group_id) ==
    IF Key(user_id, group_id) \in DOMAIN file
    THEN file[Key(user_id, group_id)]
    ELSE default_spam_data

get_spam_data(user_id, group_id) == SpamDataIn(spam_file, user_id, group_id)

\* save_spam_data on the file contents `file`: read the map, set the key, write
SaveSpamDataIn(file, user_id, group_id, data) == Put(file, Key(user_id, group_id), data)


(***************************************************************************)
(* ContentFilter                                                           *)
(***************************************************************************)
NoViolation == [violation |-> FALSE, reasons |-> <<>>, action |-> None]

Violation(reasons, action) == [violation |-> TRUE, reasons |-> reasons, action |-> action]

\* the words of `words` found in `text`, case-insensitively, as substrings
FoundWords(words, text) ==
    SelectSeq(words, LAMBDA word : Contains(Lower(text), Lower(word)))

check_banned_words(group_id, text) ==
    IF ~ENABLE_BANNED_WORDS THEN NoViolation
    ELSE LET banned_words == Get(get_group_data(group_id), "banned_words",
                                 default_banned_words)
         IN  IF FoundWords(banned_words, text) # <<>>
             THEN Violation(<<"Contains banned word(s)">>, "delete")
             ELSE NoViolation

\* the first category with a domain that occurs in `domain`, or 0
SuspiciousCategory(domain) ==
    LET hits == {c \in 1..Len(suspicious_domains) :
                    \E d \in SeqRange(suspicious_domains[c].domains) :
                        Contains(domain, d)}
    IN  IF hits = {} THEN 0 ELSE CHOOSE c \in hits : \A c2 \in hits : c <= c2

\* urlparse raises ValueError ("Invalid IPv6 URL") when the netloc holds one
\* of the two square brackets without the other
UrlParseRaises(url) ==
    LET netloc == SeqRange(Netloc(url))
    IN  ("[" \in netloc) # ("]" \in netloc)

\* the violations check_links records for one URL (lines 107-128); a URL
\* that urlparse rejects is logged and skipped
UrlViolations(group_data, url) ==
    LET domain == Lower(Netloc(url))
        c == SuspiciousCategory(domain)
        whitelist == Get(group_data, "whitelisted_domains", <<>>)
    IN  IF UrlParseRaises(url) THEN <<>>
        ELSE (IF c # 0 THEN <<suspicious_domains[c].link_reason>> ELSE <<>>)
             \o (IF /\ Get(group_data, "link_policy", "moderate") = "strict"
                    /\ ~\E allowed \in SeqRange(whitelist) : Contains(domain, allowed)
                 THEN <<"External link not whitelisted">>
                 ELSE <<>>)

RECURSIVE AllUrlViolations(_, _)
AllUrlViolations(group_data, urls) ==
    IF urls = <<>> THEN <<>>
    ELSE UrlViolations(group_data, Head(urls))
         \o AllUrlViolations(group_data, Tail(urls))

\* check_links.  The second loop (lines 130-136) looks for a suspicious
\* domain inside one captured label of a bare domain, which holds no dot,
\* while every listed domain holds one: it never adds a violation.
check_links(group_id, text) ==
    IF ~ENABLE_LINK_FILTERING THEN NoViolation
    ELSE LET group_data == get_group_data(group_id)
             violations == AllUrlViolations(group_data, FindUrls(text))
         IN  IF violations # <<>>
             THEN Violation(violations,
                            IF Get(group_data, "link_policy", "moderate") = "strict"
                            THEN "delete" ELSE "warn")
             ELSE NoViolation

AnyMedia(media) ==
    \/ media.photo \/ media.video \/ media.audio
    \/ media.has_document \/ media.animation \/ media.sticker

check_media_content(group_id, message) ==
    IF ~ENABLE_MEDIA_FILTERING THEN NoViolation
    ELSE LET media == message.media
             media_policy == Get(get_group_data(group_id), "media_policy", <<>>)
             Blocked(flag) == Get(media_policy, flag, FALSE)
             If(cond, reason) == IF cond THEN <<reason>> ELSE <<>>
             by_type ==
                 IF Blocked("block_all_media")
                 THEN If(AnyMedia(media), "Media content not allowed in this group")
                 ELSE If(media.photo /\ Blocked("block_images"), "Images not allowed")
                      \o If(media.video /\ Blocked("block_videos"), "Videos not allowed")
                      \o If(media.audio /\ Blocked("block_audio"), "Audio files not allowed")
                      \o If(media.has_document /\ Blocked("block_documents"),
                            "Documents not allowed")
                      \o If(media.sticker /\ Blocked("block_stickers"), "Stickers not allowed")
                      \o If(media.animation /\ Blocked("block_gifs"),
                            "GIFs/animations not allowed")
             by_size ==
                 If(/\ media.has_document
                    /\ media.file_size > Get(media_policy, "max_file_size", DefaultMaxFileSize),
                    "File too large")
             by_name ==
                 If(/\ media.has_document
                    /\ \E ext \in SeqRange(dangerous_extensions) :
                          EndsWith(Lower(media.file_name), ext),
                    "Potentially harmful file type")
             violations == by_type \o by_size \o by_name
         IN  IF violations # <<>> THEN Violation(violations, "delete") ELSE NoViolation

\* a faulty variant: forwards from bot accounts pass under "restrict"
check_forwarded_content_bots_pass(group_id, message) ==
    LET fwd == message.fwd
        forward_policy == Get(get_group_data(group_id), "forward_policy", "allow")
        If(cond, reason) == IF cond THEN <<reason>> ELSE <<>>
        violations ==
            IF forward_policy = "block" THEN <<"Forwarded messages not allowed">>
            ELSE IF forward_policy = "restrict"
            THEN (IF fwd.forward_chat_type = "channel"
                  THEN <<"Messages forwarded from channels not allowed">>
                  ELSE If(fwd.forward_chat_type \in {"group", "supergroup"},
                          "Messages forwarded from other groups not allowed"))
            ELSE <<>>
    IN  IF ~fwd.forward_date \/ forward_policy = "allow" THEN NoViolation
        ELSE IF violations # <<>> THEN Violation(violations, "delete")
        ELSE NoViolation

check_forwarded_content(group_id, message) ==
    LET fwd == message.fwd
        forward_policy == Get(get_group_data(group_id), "forward_policy", "allow")
        If(cond, reason) == IF cond THEN <<reason>> ELSE <<>>
        violations ==
            IF forward_policy = "block" THEN <<"Forwarded messages not allowed">>
            ELSE IF forward_policy = "restrict"
            THEN (IF fwd.forward_chat_type = "channel"
                  THEN <<"Messages forwarded from channels not allowed">>
                  ELSE If(fwd.forward_chat_type \in {"group", "supergroup"},
                          "Messages forwarded from other groups not allowed"))
                 \o If(fwd.forward_from = "bot", "Messages forwarded from bots not allowed")
            ELSE <<>>
    IN  IF ~fwd.forward_date \/ forward_policy = "allow" THEN NoViolation
        ELSE IF violations # <<>> THEN Violation(violations, "delete")
        ELSE NoViolation

\* lines 275-280: the final action of comprehensive_content_check
FinalAction(actions) ==
    IF "delete" \in actions THEN "delete"
    ELSE IF "mute" \in actions THEN "mute"
    ELSE "warn"

comprehensive_content_check(group_id, message) ==
    LET fired ==
            SelectSeq(
                (IF message.text # <<>>
                 THEN <<check_banned_words(group_id, message.text),
                        check_links(group_id, message.text)>>
                 ELSE <<>>)
                \o <<check_media_content(group_id, message),
                     check_forwarded_content(group_id, message)>>,
                LAMBDA r : r.violation)
        Reasons[i \in 0..Len(fired)] ==
            IF i = 0 THEN <<>> ELSE Reasons[i - 1] \o fired[i].reasons
        all_violations == Reasons[Len(fired)]
    IN  [violation |-> Len(all_violations) > 0,
         reasons |-> all_violations,
         action |-> FinalAction({fired[i].action : i \in 1..Len(fired)})]


(***************************************************************************)
(* SpamDetector                                                            *)
(***************************************************************************)
\* the normalised texts the model's messages give: similarity is tabulated
\* over them once
CleanedTexts == {clean_message(m.text) : m \in Messages}

SimilarTable ==
    {<<p[1], p[2], SimilarityAtLeastThreshold(p[1], p[2])>> :
        p \in CleanedTexts \X CleanedTexts}

\* a faulty variant: the limit itself already counts as flooding
FloodExceededAtLimit(message_count) == message_count >= FLOOD_LIMIT

\* is_flood, line 38
FloodExceeded(message_count) == message_count > FLOOD_LIMIT

\* is_flood, lines 27-35: the record it saves at time current_time
FloodUpdate(spam_data, current_time) ==
    [spam_data EXCEPT
        !.message_count =
            IF current_time - spam_data.last_message_time > FloodWindow
            THEN 1
            ELSE spam_data.message_count + 1,
        !.last_message_time = current_time]

\* is_spam_message, lines 49-53
SimilarCount(recent_messages, cleaned_message) ==
    Cardinality({i \in 1..Len(recent_messages) :
                    <<cleaned_message, recent_messages[i], TRUE>> \in SimilarTable})

\* a faulty variant: the current message counts as one of the similar ones
RepeatedCountingCurrent(similar_count) == similar_count + 1 >= SPAM_THRESHOLD

\* is_spam_message, line 64
Repeated(similar_count) == similar_count >= SPAM_THRESHOLD

\* a faulty variant: the history is never cut
HistoryUpdateUncapped(spam_data, cleaned_message) ==
    [spam_data EXCEPT
        !.recent_messages = Append(spam_data.recent_messages, cleaned_message)]

\* is_spam_message, lines 55-60: the record it saves
HistoryUpdate(spam_data, cleaned_message) ==
    [spam_data EXCEPT
        !.recent_messages = LastN(Append(spam_data.recent_messages, cleaned_message),
                                  RecentCap)]

contains_banned_words(group_id, message_text) ==
    \E word \in SeqRange(Get(get_group_data(group_id), "banned_words", <<>>)) :
        Contains(Lower(message_text), Lower(word))

has_suspicious_links(message_text) ==
    \E url \in SeqRange(FindUrls(message_text)) :
        \E domain \in SeqRange(BasicSuspiciousDomains) : Contains(url, domain)

\* lines 118-140: one check that fired sets the action, the later over the earlier
Fire(result, fired, reason, action) ==
    IF fired
    THEN [is_spam |-> TRUE,
          reasons |-> Append(result.reasons, reason),
          action_recommended |-> action]
    ELSE result

\* lines 143-152: the merge with the content filter's result
MergeContent(result, content_result) ==
    IF ~content_result.violation THEN result
    ELSE [is_spam |-> TRUE,
          reasons |-> result.reasons \o content_result.reasons,
          action_recommended |->
              IF content_result.action = "delete" \/ result.action_recommended = "mute"
              THEN content_result.action
              ELSE IF result.action_recommended = None
              THEN content_result.action
              ELSE result.action_recommended]

\* check_message's result, given what is_flood and is_spam_message returned
CheckResult(group_id, message, with_object, flood, repeated) ==
    LET r0 == [is_spam |-> FALSE, reasons |-> <<>>, action_recommended |-> None]
        r1 == Fire(r0, flood, "flooding", "mute")
        r2 == Fire(r1, repeated, "repeated_content", "warn")
        r3 == Fire(r2, contains_banned_words(group_id, message.text), "banned_words",
                   "delete")
        r4 == Fire(r3, has_suspicious_links(message.text), "suspicious_links", "warn")
    IN  IF with_object
        THEN MergeContent(r4, comprehensive_content_check(group_id, message))
        ELSE r4

\* a faulty variant: the ban only comes after MAX_WARNINGS is exceeded
WarningActionBanAfterMax(warning_count) ==
    IF warning_count > MAX_WARNINGS THEN "ban"
    ELSE IF warning_count >= 2 THEN "mute"
    ELSE "warn"

\* get_warning_action
get_warning_action(warning_count) ==
    IF warning_count >= MAX_WARNINGS THEN "ban"
    ELSE IF warning_count >= 2 THEN "mute"
    ELSE "warn"

(***************************************************************************)
(* The state after construction: empty spam data, a groups file with one   *)
(* of the initial contents, no call made yet.                              *)
(***************************************************************************)
NoVerdict ==
    [user |-> None, group |-> None, text |-> <<>>, with_object |-> FALSE,
     message |-> Msg(<<>>, NoMedia, NoForward),
     flood |-> FALSE, repeated |-> FALSE,
     is_spam |-> FALSE, reasons |-> <<>>, action_recommended |-> None]

NoWarnRet == [op |-> None, user |-> None, group |-> None, count |-> 0, action |-> None]

AllKeys == {Key(u, g) : u \in Users, g \in Groups}

DetectorFresh ==
    /\ now = StartTime
    /\ spam_file = <<>>
    /\ verdict = NoVerdict
    /\ warn_ret = NoWarnRet
    /\ flood_seq = [k \in AllKeys |-> [n |-> 0, first |-> 0, start |-> 0]]
    /\ ladder = [k \in AllKeys |-> [n |-> 0, resets |-> 0, peak |-> 0]]
    /\ n_checked = 0
    /\ n_warn_ops = 0

\* CaptchaManager.__init__, and nobody in any group yet
NoRecord ==
    [user_id |-> None, chat_id |-> None, question |-> None, answer |-> <<>>,
     expires |-> 0, id |-> 0]

IdleHandler == [pc |-> "idle", op |-> None, user_id |-> None, rec |-> NoRecord]

NoRet ==
    [op |-> None, user_id |-> None, ok |-> FALSE, msg |-> None, revealed |-> <<>>,
     answer |-> <<>>, found |-> FALSE, rec |-> NoRecord, at |-> 0,
     lift_ok |-> FALSE, gone |-> FALSE, calls |-> 0]

IdleSweep ==
    [pc |-> "idle", expired |-> <<>>, i |-> 0, at |-> 0, seen |-> <<>>,
     banned |-> {}, unbanned |-> {}, notified |-> {}, deleted |-> {}, failed |-> {}]

CaptchaFresh ==
    /\ pending_users = <<>>
    /\ chat_status = [k \in AllKeys |-> "left"]
    /\ handler = IdleHandler
    /\ ret = NoRet
    /\ sweep = IdleSweep
    /\ outcomes = [lifted |-> {}, solved |-> {}, banned |-> {}, removed |-> {},
                   wrong |-> [u \in Users |-> 0]]
    /\ n_created = 0
    /\ n_answers = 0
    /\ n_sweeps = 0

\* channel usernames, as config and the groups store them and as telegram
\* names them
ChannelOne == <<"c", "1">>
ChannelTwo == <<"c", "2">>
AtChannelOne == <<"@", "c", "1">>
AtChannelTwo == <<"@", "c", "2">>

\* the channels that exist on the platform
PlatformChannels == {AtChannelOne, AtChannelTwo}

\* config.py with nothing set in the environment
DefaultConfig ==
    [CHECK_SUBSCRIPTION |-> FALSE, REQUIRED_CHANNEL |-> <<>>,
     ENABLE_MEDIA_FILTERING |-> TRUE, ENABLE_LINK_FILTERING |-> TRUE,
     ENABLE_BANNED_WORDS |-> TRUE]

NoVerification ==
    [user_id |-> None, chat_id |-> None, message_id |-> 0, channel |-> <<>>]

IdleTask ==
    [pc |-> "idle", op |-> None, user_id |-> None, chat_id |-> None,
     channels |-> <<>>, i |-> 0, channel |-> <<>>, data |-> NoVerification,
     status |-> None, message_id |-> 0]

NoGateRet ==
    [op |-> None, user_id |-> None, chat_id |-> None, channel |-> <<>>,
     ok |-> FALSE, msg |-> None, required |-> <<>>, missing |-> {},
     raised |-> FALSE, status |-> None, data |-> NoVerification]

\* SubscriptionChecker.__init__, nobody in any channel, nothing sent
GateFresh ==
    /\ pending_verification = <<>>
    /\ channel_status = [k \in Users \X PlatformChannels |-> "left"]
    /\ messages = {}
    /\ task = IdleTask
    /\ gate_ret = NoGateRet
    /\ n_gate_ops = 0

SubscriptionFresh ==
    /\ config = DefaultConfig
    /\ GateFresh

\* the handle_messages calls that may be in flight at once
Handlers == {"h1", "h2"}

IdleCall ==
    [pc |-> "idle", user_id |-> None, chat_id |-> None,
     message |-> [text |-> <<>>, media |-> NoMedia, fwd |-> NoForward],
     action |-> None, reasons |-> <<>>]

NoFilterRet ==
    [group |-> None, message |-> [text |-> <<>>, media |-> NoMedia, fwd |-> NoForward],
     raised |-> FALSE,
     banned |-> [violation |-> FALSE, reasons |-> <<>>, action |-> None],
     links |-> [violation |-> FALSE, reasons |-> <<>>, action |-> None],
     media |-> [violation |-> FALSE, reasons |-> <<>>, action |-> None],
     forward |-> [violation |-> FALSE, reasons |-> <<>>, action |-> None]]

NoHandled ==
    [user |-> None, group |-> None, action |-> None, fails_at |-> None, warnings |-> 0]

NoChallenge ==
    [pc |-> "idle", operation |-> None, a |-> 0, b |-> 0, max_num |-> 0,
     question |-> <<>>, answer |-> <<>>, options |-> <<>>]

NoCommandRet ==
    [command |-> None, issuer |-> None, target |-> None, group |-> None,
     acted |-> FALSE]

\* the invocations of cleanup_expired_captchas that may be in flight at once
Sweepers == {"s1", "s2"}

CallsFresh ==
    /\ handled = NoHandled
    /\ challenge = NoChallenge
    /\ command_ret = NoCommandRet
    /\ sweepers = [s \in Sweepers |-> IdleSweep]

\* no message being handled, no content check made
HandlingFresh ==
    /\ in_flight = [h \in Handlers |-> IdleCall]
    /\ evaluated = [k \in AllKeys |-> [texts |-> <<>>, run |-> 0, last |-> 0]]
    /\ filter_ret = NoFilterRet
    /\ CallsFresh

DetectorInit ==
    /\ HandlingFresh
    /\ DetectorFresh
    /\ groups_file \in InitialGroupsFiles
    /\ CaptchaFresh
    /\ SubscriptionFresh

\* time passes
Tick(d) ==
    /\ now + d <= StartTime + MaxElapsed
    /\ now' = now + d
    /\ UNCHANGED <<handling_vars, detector_vars, captcha_vars, subscription_vars>>

\* StorageManager._read_json: the stored map, or {} when the file is missing
\* or does not parse
read_json(file, ok) == IF ok THEN file ELSE <<>>

\* the four reads of spam_data.json one evaluation makes, all succeeding
ReadsOk == <<TRUE, TRUE, TRUE, TRUE>>

\* SpamDetector.check_message(user_id, group_id, message.text, message or None);
\* reads[i] is the outcome of the read in is_flood's get_spam_data and
\* save_spam_data and in is_spam_message's get_spam_data and save_spam_data
Evaluate(user_id, group_id, message, with_object, reads) ==
    LET flooded == FloodUpdate(SpamDataIn(read_json(spam_file, reads[1]),
                                          user_id, group_id), now)
        file1 == SaveSpamDataIn(read_json(spam_file, reads[2]), user_id, group_id,
                                flooded)
        flood == FloodExceeded(flooded.message_count)
        before == SpamDataIn(read_json(file1, reads[3]), user_id, group_id)
        cleaned == clean_message(message.text)
        repeated == Repeated(SimilarCount(before.recent_messages, cleaned))
        file2 == SaveSpamDataIn(read_json(file1, reads[4]), user_id, group_id,
                                HistoryUpdate(before, cleaned))
        result == CheckResult(group_id, message, with_object, flood, repeated)
        seq == flood_seq[Key(user_id, group_id)]
    IN  /\ n_checked < MaxMsgs
        /\ spam_file' = file2
        /\ verdict' = [user |-> user_id, group |-> group_id, text |-> message.text,
                       message |-> message,
                       with_object |-> with_object,
                       flood |-> flood, repeated |-> repeated,
                       is_spam |-> result.is_spam, reasons |-> result.reasons,
                       action_recommended |-> result.action_recommended]
        /\ flood_seq' = [flood_seq EXCEPT ![Key(user_id, group_id)] =
                            [n |-> seq.n + 1,
                             first |-> IF seq.n = 0 THEN now ELSE seq.first,
                             start |-> IF flooded.message_count = 1 THEN now
                                       ELSE seq.start]]
        /\ n_checked' = n_checked + 1
        /\ UNCHANGED <<now, groups_file, warn_ret, ladder, n_warn_ops, captcha_vars,
                       subscription_vars>>

\* one evaluation with the files intact and no other handler in flight
CheckMessage(user_id, group_id, message, with_object) ==
    /\ Evaluate(user_id, group_id, message, with_object, ReadsOk)
    /\ UNCHANGED handling_vars

\* SpamDetector.increment_warnings, and get_warning_action of what it returns
IncrementWarnings(user_id, group_id) ==
    LET spam_data == get_spam_data(user_id, group_id)
        warnings == spam_data.warnings + 1
        rung == ladder[Key(user_id, group_id)]
    IN  /\ n_warn_ops < MaxWarnOps
        /\ spam_file' = SaveSpamDataIn(spam_file, user_id, group_id,
                                       [spam_data EXCEPT !.warnings = warnings])
        /\ warn_ret' = [op |-> "increment", user |-> user_id, group |-> group_id,
                        count |-> warnings, action |-> get_warning_action(warnings)]
        /\ ladder' = [ladder EXCEPT ![Key(user_id, group_id)] =
                         [n |-> rung.n + 1, resets |-> rung.resets,
                          peak |-> IF rung.n + 1 > rung.peak THEN rung.n + 1
                                   ELSE rung.peak]]
        /\ n_warn_ops' = n_warn_ops + 1
        /\ UNCHANGED <<handling_vars, now, groups_file, verdict, flood_seq, n_checked, captcha_vars, subscription_vars>>

\* SpamDetector.reset_warnings
ResetWarnings(user_id, group_id) ==
    LET spam_data == get_spam_data(user_id, group_id)
        rung == ladder[Key(user_id, group_id)]
    IN  /\ n_warn_ops < MaxWarnOps
        /\ spam_file' = SaveSpamDataIn(spam_file, user_id, group_id,
                                       [spam_data EXCEPT !.warnings = 0])
        /\ warn_ret' = [op |-> "reset", user |-> user_id, group |-> group_id,
                        count |-> 0, action |-> None]
        /\ ladder' = [ladder EXCEPT ![Key(user_id, group_id)] =
                         [n |-> 0, resets |-> rung.resets + 1, peak |-> rung.peak]]
        /\ n_warn_ops' = n_warn_ops + 1
        /\ UNCHANGED <<handling_vars, now, groups_file, verdict, flood_seq, n_checked, captcha_vars, subscription_vars>>

DetectorNext ==
    \/ \E d \in FloodSteps : Tick(d)
    \/ \E u \in DetectorUsers, g \in DetectorGroups, m \in DetectorMessages, o \in BOOLEAN :
          CheckMessage(u, g, m, o)

\* the detector on its own: messages arrive and time passes
SpecDetector == DetectorInit /\ [][DetectorNext]_vars


WarningsNext ==
    \/ \E u \in Users, g \in DetectorGroups : IncrementWarnings(u, g)
    \/ \E u \in Users, g \in DetectorGroups : ResetWarnings(u, g)
    \/ \E u \in DetectorUsers, g \in DetectorGroups, m \in DetectorMessages :
          n_checked < MixedMsgs /\ CheckMessage(u, g, m, TRUE)

\* the warning ladder, with a few message evaluations writing the same records
SpecWarnings == DetectorInit /\ [][WarningsNext]_vars

(***************************************************************************)
(* Claims about the detector.                                              *)
(***************************************************************************)
Called == verdict.user # None

VerdictKey == Key(verdict.user, verdict.group)

\* the text holds a word of the group's stored banned-word list
HoldsBannedWord(group_id, text) ==
    \E word \in SeqRange(Get(get_group_data(group_id), "banned_words", <<>>)) :
        Contains(Lower(text), Lower(word))

\* C1: a message on which the flood check fires and whose text holds a word
\* of the group's banned-word list is answered with action mute, never
\* delete, with or without the message object.
C1_FloodWithBannedWordMutes ==
    (Called /\ verdict.flood /\ HoldsBannedWord(verdict.group, verdict.text))
        => verdict.action_recommended = "mute"

\* C2: from a fresh key, while all messages so far lie within 60 seconds of
\* the first, the n-th message is flagged as flood iff n > flood_limit.
C2_FloodIffOverLimit ==
    Called =>
        LET seq == flood_seq[VerdictKey]
            at == spam_file[VerdictKey].last_message_time
        IN  (at - seq.first <= FloodWindow) => (verdict.flood <=> seq.n > FLOOD_LIMIT)

\* the 6th message of a window that is 40 seconds old is flagged
C2_Witness ==
    /\ Called
    /\ flood_seq[VerdictKey].n = FLOOD_LIMIT + 1
    /\ spam_file[VerdictKey].last_message_time - flood_seq[VerdictKey].first = 40
    /\ verdict.flood

\* the stored history of the evaluated key holds one text only
SameTextOnly ==
    LET h == spam_file[VerdictKey].recent_messages
    IN  \A i \in 1..Len(h) : h[i] = h[Len(h)]

Occurrences == Len(spam_file[VerdictKey].recent_messages)

\* C3 as stated: when a user repeats one normalised text, the 3rd occurrence
\* is reported as repeated content and the 1st and 2nd are not.
C3_ThirdOccurrenceFlagged ==
    (Called /\ SameTextOnly) =>
        /\ Occurrences \in {1, 2} => ~verdict.repeated
        /\ Occurrences = SPAM_THRESHOLD => verdict.repeated

\* C3 amended: when a user repeats one normalised text, the occurrence is
\* reported as repeated content iff at least spam_threshold earlier ones are
\* in the history: the 4th is the first reported, the first three are not.
C3_FourthOccurrenceFlagged ==
    (Called /\ SameTextOnly) => (verdict.repeated <=> Occurrences >= SPAM_THRESHOLD + 1)

\* the 4th occurrence, sent with different case, blanks and punctuation
C3_Witness ==
    /\ Called /\ SameTextOnly
    /\ Occurrences = SPAM_THRESHOLD + 1
    /\ verdict.text = TextSpamShout
    /\ verdict.repeated

\* C4: the n-th increment_warnings since the key was fresh or reset returns
\* n, and get_warning_action of it is warn for 1, mute for 2 and ban from
\* MAX_WARNINGS on; after reset_warnings the count starts again at 1.
C4_WarningLadder ==
    warn_ret.op = "increment" =>
        LET n == ladder[Key(warn_ret.user, warn_ret.group)].n
        IN  /\ warn_ret.count = n
            /\ n = 1 => warn_ret.action = "warn"
            /\ n = 2 => warn_ret.action = "mute"
            /\ n >= MAX_WARNINGS => warn_ret.action = "ban"
            /\ spam_file[Key(warn_ret.user, warn_ret.group)].warnings = n

\* the first increment after a reset that followed a ban-level count
C4_Witness ==
    /\ warn_ret.op = "increment"
    /\ ladder[Key(warn_ret.user, warn_ret.group)].peak >= MAX_WARNINGS
    /\ ladder[Key(warn_ret.user, warn_ret.group)].resets >= 1
    /\ warn_ret.count = 1
    /\ warn_ret.action = "warn"


(***************************************************************************)
(* The entry captcha (bot/captcha.py).  pending_users is a Python dict: it *)
(* is modelled as the sequence of its records in the dict's order, each    *)
(* record carrying its key.  The field id is history: it numbers the       *)
(* captchas in the order of their creation, so that what happens to one    *)
(* captcha can be told from what happens to the next one of the same user. *)
(* create_captcha_for_user, verify_captcha and cleanup_expired_captchas    *)
(* are coroutines: each runs without interruption up to an awaited         *)
(* platform call, where the other task may run.  A platform call either    *)
(* succeeds or raises.                                                     *)
(***************************************************************************)
Digits == <<"0", "1", "2", "3", "4", "5", "6", "7", "8", "9">>

\* str(n) of a natural number
RECURSIVE IntToStr(_)
IntToStr(n) ==
    IF n < 10 THEN <<Digits[n + 1]>>
    ELSE IntToStr(n \div 10) \o <<Digits[(n % 10) + 1]>>

Min(a, b) == IF a < b THEN a ELSE b

difficulty_settings(difficulty) ==
    CASE difficulty = "easy" -> [type |-> "math", max_num |-> 10]
      [] difficulty = "hard" -> [type |-> "mixed", max_num |-> 100]
      [] OTHER -> [type |-> "math", max_num |-> 50]

WhatIs == <<"W", "h", "a", "t", " ", "i", "s">>

\* the multiplication sign of the questions, one character of the text
TimesSign == "(times)"

\* the draws of random.choice and random.randint that the model takes
MathSamples == {[operation |-> "+", a |-> 3, b |-> 4]}

\* the draw is one that _generate_math_captcha(max_num) can take
DrawInRange(d, max_num) ==
    CASE d.operation = "+" -> d.a \in 1..max_num /\ d.b \in 1..max_num
      [] d.operation = "-" -> d.a \in (max_num \div 2)..max_num /\ d.b \in 1..d.a
      [] OTHER -> /\ d.a \in 1..Min(max_num \div 10, 12)
                  /\ d.b \in 1..Min(max_num \div 10, 12)

\* a faulty variant: the product is computed as a sum
generate_math_captcha_adding(d) ==
    LET answer == CASE d.operation = "-" -> d.a - d.b
                    [] OTHER -> d.a + d.b
        sign == IF d.operation \in {"+", "-"} THEN d.operation ELSE TimesSign
    IN  [question |-> WhatIs \o <<" ">> \o IntToStr(d.a) \o <<" ", sign, " ">>
                          \o IntToStr(d.b) \o <<"?">>,
         answer |-> IntToStr(answer)]

generate_math_captcha(d) ==
    LET answer == CASE d.operation = "+" -> d.a + d.b
                    [] d.operation = "-" -> d.a - d.b
                    [] OTHER -> d.a * d.b
        sign == IF d.operation \in {"+", "-"} THEN d.operation ELSE TimesSign
    IN  [question |-> WhatIs \o <<" ">> \o IntToStr(d.a) \o <<" ", sign, " ">>
                          \o IntToStr(d.b) \o <<"?">>,
         answer |-> IntToStr(answer)]

\* the questions of _generate_text_captcha that the model draws
TextSamples ==
    {[question |-> <<"W", "h", "a", "t", " ", "i", "s", " ", "t", "h", "e", " ", "c", "a", "p", "i", "t", "a", "l", " ", "o", "f", " ", "F", "r", "a", "n", "c", "e", "?">>,
      answer |-> <<"p", "a", "r", "i", "s">>]}

generate_text_captcha == {[question |-> q.question, answer |-> Lower(q.answer)] : q \in TextSamples}

\* every (question, answer) that generate_captcha(difficulty) may return
generate_captcha(difficulty) ==
    LET settings == difficulty_settings(difficulty)
        math == {generate_math_captcha(d) :
                    d \in {s \in MathSamples : DrawInRange(s, settings.max_num)}}
    IN  IF settings.type = "mixed" THEN math \cup generate_text_captcha ELSE math

\* the captchas that the state machine draws: the trivia ones, whose answers
\* are words
CaptchaDraws == generate_captcha(CAPTCHA_DIFFICULTY) \cap generate_text_captcha

\* the answers that users submit
AnswerSamples == {<<" ", "P", "a", "r", "i", "s">>, <<"7">>}

\* the instants at which the captcha clock is read: the start, the deadline
\* of a captcha created at the start, and the seconds after it
CaptchaInstants ==
    {StartTime + d : d \in {0} \cup (CAPTCHA_TIMEOUT..MaxCaptchaElapsed)}

\* who joins which group
CaptchaJoins == {<<"u1", "g1">>, <<"u1", "g2">>, <<"u2", "g1">>}

\* the dict pending_users
DictHas(dict, user_id) == \E i \in 1..Len(dict) : dict[i].user_id = user_id

DictGet(dict, user_id) == dict[CHOOSE i \in 1..Len(dict) : dict[i].user_id = user_id]

\* a store that keeps the record the user already has
DictSetKeepingFirst(dict, user_id, rec) ==
    IF DictHas(dict, user_id) THEN dict ELSE Append(dict, rec)

DictSet(dict, user_id, rec) ==
    IF DictHas(dict, user_id)
    THEN [i \in 1..Len(dict) |-> IF dict[i].user_id = user_id THEN rec ELSE dict[i]]
    ELSE Append(dict, rec)

DictDel(dict, user_id) ==
    LET keep(r) == r.user_id # user_id IN SelectSeq(dict, keep)

\* what the platform does to a member's status on each successful call
restrict_chat_member(status, user_id, chat_id, may_send) ==
    LET k == Key(user_id, chat_id)
    IN  IF status[k] \in {"member", "restricted"}
        THEN [status EXCEPT ![k] = IF may_send THEN "member" ELSE "restricted"]
        ELSE status

ban_chat_member(status, user_id, chat_id) ==
    [status EXCEPT ![Key(user_id, chat_id)] = "kicked"]

unban_chat_member(status, user_id, chat_id) ==
    [status EXCEPT ![Key(user_id, chat_id)] = "left"]

\* verify_captcha: datetime.now() > captcha_data["expires"]
IsExpiredInverted(current_time, expires) == current_time < expires

IsExpired(current_time, expires) == current_time > expires

\* verify_captcha: user_answer == correct_answer, both lower-cased and stripped
AnswersEqualAsTyped(answer, stored) == answer = stored

AnswersEqual(answer, stored) == Strip(Lower(answer)) = Strip(Lower(stored))

\* verify_captcha leaves pending_users alone when the answer is wrong
PendingAfterWrongAnswerDropped(dict, user_id) == DictDel(dict, user_id)

PendingAfterWrongAnswer(dict, user_id) == dict

\* cleanup_expired_captchas: the (user_id, chat_id) of the expired records
ExpiredUsersIncludingDue(dict, current_time) ==
    LET expired(r) == current_time >= r.expires
        found == SelectSeq(dict, expired)
    IN  [i \in 1..Len(found) |->
            [user_id |-> found[i].user_id, chat_id |-> found[i].chat_id,
             id |-> found[i].id]]

ExpiredUsersInverted(dict, current_time) ==
    LET expired(r) == current_time < r.expires
        found == SelectSeq(dict, expired)
    IN  [i \in 1..Len(found) |->
            [user_id |-> found[i].user_id, chat_id |-> found[i].chat_id,
             id |-> found[i].id]]

ExpiredUsers(dict, current_time) ==
    LET expired(r) == current_time > r.expires
        found == SelectSeq(dict, expired)
    IN  [i \in 1..Len(found) |->
            [user_id |-> found[i].user_id, chat_id |-> found[i].chat_id,
             id |-> found[i].id]]

CaptchaInit ==
    /\ HandlingFresh
    /\ DetectorFresh
    /\ groups_file = <<>>
    /\ CaptchaFresh
    /\ SubscriptionFresh

\* the calls made so far
CaptchaOps == n_created + n_answers + n_sweeps

HandlerFree == handler.pc \in {"idle", "returned"}

SweepFree == sweep.pc \in {"idle", "returned"}

\* time passes
CaptchaTick(t) ==
    /\ t > now
    /\ now' = t
    /\ UNCHANGED <<handling_vars, detector_vars, captcha_vars, subscription_vars>>

\* a new member joins chat_id and create_captcha_for_user is called: the
\* record is stored, then the challenge is sent
CreateStart(user_id, chat_id, captcha) ==
    LET rec == [user_id |-> user_id, chat_id |-> chat_id,
                question |-> captcha.question, answer |-> captcha.answer,
                expires |-> now + CAPTCHA_TIMEOUT, id |-> n_created + 1]
    IN  /\ HandlerFree
        /\ CaptchaOps < MaxCaptchaOps
        /\ chat_status[Key(user_id, chat_id)] = "left"
        /\ chat_status' = [chat_status EXCEPT ![Key(user_id, chat_id)] = "member"]
        /\ pending_users' = DictSet(pending_users, user_id, rec)
        /\ handler' = [pc |-> "create_send", op |-> "create", user_id |-> user_id,
                       rec |-> rec]
        /\ ret' = [NoRet EXCEPT !.op = "create", !.user_id = user_id, !.rec = rec,
                                !.at = now]
        /\ outcomes' = [outcomes EXCEPT !.wrong[user_id] = 0]
        /\ n_created' = n_created + 1
        /\ UNCHANGED <<handling_vars, now, detector_vars, subscription_vars, sweep, n_answers, n_sweeps>>

\* create_captcha_for_user: send_message returns or raises
CreateSend(ok) ==
    /\ handler.pc = "create_send"
    /\ handler' = [handler EXCEPT !.pc = IF ok THEN "create_restrict" ELSE "returned"]
    /\ ret' = [ret EXCEPT !.calls = 1]
    /\ UNCHANGED <<handling_vars, now, detector_vars, subscription_vars, pending_users, chat_status, sweep, outcomes,
                   n_created, n_answers, n_sweeps>>

\* create_captcha_for_user: restrict_chat_member returns or raises
CreateRestrict(ok) ==
    /\ handler.pc = "create_restrict"
    /\ handler' = [handler EXCEPT !.pc = "returned"]
    /\ ret' = [ret EXCEPT !.calls = 2, !.ok = ok]
    /\ chat_status' = IF ok
                      THEN restrict_chat_member(chat_status, handler.user_id,
                                                handler.rec.chat_id, FALSE)
                      ELSE chat_status
    /\ UNCHANGED <<handling_vars, now, detector_vars, subscription_vars, pending_users, sweep, outcomes,
                   n_created, n_answers, n_sweeps>>

\* verify_captcha: the message returned with False for an answer that is not
\* the stored one, as its fixed words and what follows "Correct answer was: "
IncorrectReply(correct_answer) ==
    [msg |-> "Incorrect answer. Try again.", revealed |-> correct_answer]

\* verify_captcha up to its return or to the await of restrict_chat_member
VerifyStart(user_id, answer) ==
    LET found == DictHas(pending_users, user_id)
        captcha_data == IF found THEN DictGet(pending_users, user_id) ELSE NoRecord
        seen == [NoRet EXCEPT !.op = "verify", !.user_id = user_id,
                              !.answer = answer, !.found = found,
                              !.rec = captcha_data, !.at = now]
        expired == found /\ IsExpired(now, captcha_data.expires)
        correct == found /\ ~expired /\ AnswersEqual(answer, captcha_data.answer)
        wrong == found /\ ~expired /\ ~correct
    IN  /\ HandlerFree
        /\ CaptchaOps < MaxCaptchaOps
        /\ n_answers' = n_answers + 1
        /\ pending_users' =
              IF expired THEN DictDel(pending_users, user_id)
              ELSE IF wrong THEN PendingAfterWrongAnswer(pending_users, user_id)
              ELSE pending_users
        /\ handler' = [pc |-> IF correct THEN "verify_restrict" ELSE "returned",
                       op |-> "verify", user_id |-> user_id, rec |-> captcha_data]
        /\ ret' = IF ~found THEN [seen EXCEPT !.msg = "No pending captcha found."]
                  ELSE IF expired THEN [seen EXCEPT !.msg = "Captcha expired."]
                  ELSE IF wrong
                  THEN [seen EXCEPT
                          !.msg = IncorrectReply(Strip(Lower(captcha_data.answer))).msg,
                          !.revealed =
                              IncorrectReply(Strip(Lower(captcha_data.answer))).revealed]
                  ELSE seen
        /\ outcomes' = IF wrong
                       THEN [outcomes EXCEPT !.wrong[user_id] = @ + 1]
                       ELSE outcomes
        /\ UNCHANGED <<handling_vars, now, detector_vars, subscription_vars, chat_status, sweep, n_created, n_sweeps>>

\* verify_captcha after a correct answer: restrict_chat_member returns, the
\* record is deleted and success returned; or the call, or the del, raises
VerifyRestrict(ok) ==
    LET user_id == handler.user_id
        rec == handler.rec
        present == DictHas(pending_users, user_id)
    IN  /\ handler.pc = "verify_restrict"
        /\ handler' = [handler EXCEPT !.pc = "returned"]
        /\ chat_status' = IF ok
                          THEN restrict_chat_member(chat_status, user_id,
                                                    rec.chat_id, TRUE)
                          ELSE chat_status
        /\ pending_users' = IF ok THEN DictDel(pending_users, user_id)
                            ELSE pending_users
        /\ ret' = IF ok /\ present
                  THEN [ret EXCEPT !.ok = TRUE, !.calls = 1, !.lift_ok = TRUE,
                                   !.msg = "Captcha solved! Welcome to the group!"]
                  ELSE [ret EXCEPT !.calls = 1, !.lift_ok = ok, !.gone = ok,
                                   !.msg = "Error updating permissions."]
        /\ outcomes' = IF ok
                       THEN [outcomes EXCEPT
                                !.lifted = @ \cup {<<rec.id, rec.chat_id>>},
                                !.solved = IF present THEN @ \cup {rec.id} ELSE @]
                       ELSE outcomes
        /\ UNCHANGED <<handling_vars, now, detector_vars, subscription_vars, sweep, n_created, n_answers, n_sweeps>>

\* the sweep moves on to the next listed user, or ends
SweepAdvance(s) ==
    [s EXCEPT !.i = s.i + 1,
              !.pc = IF s.i + 1 > Len(s.expired) THEN "returned" ELSE "ban"]

\* cleanup_expired_captchas is called: it lists the expired records and
\* awaits the ban of the first
SweepList ==
    LET expired_users == ExpiredUsers(pending_users, now)
    IN  /\ SweepFree
        /\ expired_users # <<>>
        /\ sweep' = [IdleSweep EXCEPT !.pc = "ban", !.expired = expired_users,
                                      !.i = 1, !.at = now, !.seen = pending_users]
        /\ n_sweeps' = n_sweeps + 1
        /\ UNCHANGED <<handling_vars, now, detector_vars, subscription_vars, pending_users, chat_status, handler, ret,
                       outcomes, n_created, n_answers>>

\* a run of the sweep, counted among the calls of the behaviour
SweepStart == CaptchaOps < MaxCaptchaOps /\ SweepList

\* cleanup_expired_captchas: ban_chat_member returns or raises
SweepBan(ok) ==
    LET e == sweep.expired[sweep.i]
    IN  /\ sweep.pc = "ban"
        /\ chat_status' = IF ok THEN ban_chat_member(chat_status, e.user_id, e.chat_id)
                          ELSE chat_status
        /\ sweep' = IF ok
                    THEN [sweep EXCEPT !.pc = "unban", !.banned = @ \cup {<<e.user_id, e.chat_id>>}]
                    ELSE SweepAdvance([sweep EXCEPT !.failed = @ \cup {<<e.user_id, e.chat_id>>}])
        /\ outcomes' = IF ok THEN [outcomes EXCEPT !.banned = @ \cup {<<e.id, e.chat_id>>}]
                       ELSE outcomes
        /\ UNCHANGED <<handling_vars, now, detector_vars, subscription_vars, pending_users, handler, ret,
                       n_created, n_answers, n_sweeps>>

\* cleanup_expired_captchas: unban_chat_member returns or raises
SweepUnban(ok) ==
    LET e == sweep.expired[sweep.i]
    IN  /\ sweep.pc = "unban"
        /\ chat_status' = IF ok THEN unban_chat_member(chat_status, e.user_id, e.chat_id)
                          ELSE chat_status
        /\ sweep' = IF ok
                    THEN [sweep EXCEPT !.pc = "notify", !.unbanned = @ \cup {<<e.user_id, e.chat_id>>}]
                    ELSE SweepAdvance([sweep EXCEPT !.failed = @ \cup {<<e.user_id, e.chat_id>>}])
        /\ outcomes' = IF ok THEN [outcomes EXCEPT !.removed = @ \cup {<<e.id, e.chat_id>>}]
                       ELSE outcomes
        /\ UNCHANGED <<handling_vars, now, detector_vars, subscription_vars, pending_users, handler, ret,
                       n_created, n_answers, n_sweeps>>

\* cleanup_expired_captchas: send_message returns and the record is deleted,
\* or the call, or the del, raises
SweepNotify(ok) ==
    LET e == sweep.expired[sweep.i]
        present == DictHas(pending_users, e.user_id)
    IN  /\ sweep.pc = "notify"
        /\ pending_users' = IF ok THEN DictDel(pending_users, e.user_id)
                            ELSE pending_users
        /\ sweep' = SweepAdvance(
              [sweep EXCEPT
                  !.notified = IF ok THEN @ \cup {<<e.user_id, e.chat_id>>} ELSE @,
                  !.deleted = IF ok /\ present THEN @ \cup {<<e.user_id, e.chat_id>>} ELSE @,
                  !.failed = IF ok /\ present THEN @ ELSE @ \cup {<<e.user_id, e.chat_id>>}])
        /\ UNCHANGED <<handling_vars, now, detector_vars, subscription_vars, chat_status, handler, ret, outcomes,
                       n_created, n_answers, n_sweeps>>

CaptchaNext ==
    \/ \E t \in CaptchaInstants : CaptchaTick(t)
    \/ \E j \in CaptchaJoins, c \in CaptchaDraws :
          CreateStart(j[1], j[2], c)
    \/ \E ok \in BOOLEAN : CreateSend(ok)
    \/ \E ok \in BOOLEAN : CreateRestrict(ok)
    \/ \E u \in Users, a \in AnswerSamples : VerifyStart(u, a)
    \/ \E ok \in BOOLEAN : VerifyRestrict(ok)
    \/ SweepStart
    \/ \E ok \in BOOLEAN : SweepBan(ok)
    \/ \E ok \in BOOLEAN : SweepUnban(ok)
    \/ \E ok \in BOOLEAN : SweepNotify(ok)

\* joins, answers, sweeps and the clock, interleaved at the awaits
SpecCaptcha == CaptchaInit /\ [][CaptchaNext]_vars

\* the captcha manager with the sweep called again and again, its platform
\* calls succeeding; joins and answers as before
LiveNext ==
    \/ \E t \in CaptchaInstants : CaptchaTick(t)
    \/ \E j \in CaptchaJoins, c \in CaptchaDraws :
          CaptchaOps < MaxLiveOps /\ CreateStart(j[1], j[2], c)
    \/ \E ok \in BOOLEAN : CreateSend(ok)
    \/ \E ok \in BOOLEAN : CreateRestrict(ok)
    \/ \E u \in Users, a \in AnswerSamples :
          CaptchaOps < MaxLiveOps /\ VerifyStart(u, a)
    \/ \E ok \in BOOLEAN : VerifyRestrict(ok)
    \/ SweepList
    \/ SweepBan(TRUE)
    \/ SweepUnban(TRUE)
    \/ SweepNotify(TRUE)

\* the sweep is periodic: a run that can start does start, and a platform
\* call of the sweep returns
SweepFairness ==
    /\ WF_vars(SweepList)
    /\ WF_vars(SweepBan(TRUE))
    /\ WF_vars(SweepUnban(TRUE))
    /\ WF_vars(SweepNotify(TRUE))

SpecCaptchaLive == CaptchaInit /\ [][LiveNext]_vars /\ SweepFairness

(***************************************************************************)
(* Claims about the entry captcha.                                         *)
(***************************************************************************)
VerifyReturned == handler.pc = "returned" /\ ret.op = "verify"

\* the call found a pending record and its deadline had not passed
InTime(r) == r.found /\ r.at <= r.rec.expires

\* the submitted answer of the call is the expected one of the record it found
AnswerMatches(r) == Strip(Lower(r.answer)) = Strip(Lower(r.rec.answer))

\* the restriction of the call's captcha was lifted in the group of its record
Lifted(r) == <<r.rec.id, r.rec.chat_id>> \in outcomes.lifted

\* C5 as stated: with a pending captcha and now <= expires_at, verify_captcha
\* succeeds iff the submitted answer, lower-cased and trimmed, equals the
\* stored one; on success the restriction is lifted in the record's group and
\* the record is deleted, and a submission without a record finds none.
C5_SucceedsIffAnswersEqual ==
    /\ (VerifyReturned /\ InTime(ret)) =>
          /\ ret.ok <=> AnswerMatches(ret)
          /\ ret.ok => (Lifted(ret) /\ ~DictHas(pending_users, ret.user_id))
    /\ (VerifyReturned /\ ~ret.found) =>
          (~ret.ok /\ ret.msg = "No pending captcha found.")

\* C5 amended: with a pending captcha and now <= expires_at, an answer that
\* equals the stored one, both lower-cased and trimmed, makes verify_captcha
\* call the platform to lift the restriction, and any other answer fails
\* without a platform call; verify_captcha succeeds iff the answers are
\* equal, that call succeeds and the record is still there when it returns;
\* on success the restriction is lifted in the record's group and the record
\* is deleted, and a submission without a record finds none.
C5_SucceedsIffEqualAndLifted ==
    /\ (VerifyReturned /\ InTime(ret)) =>
          /\ ret.calls = (IF AnswerMatches(ret) THEN 1 ELSE 0)
          /\ ret.ok <=> (AnswerMatches(ret) /\ ret.lift_ok /\ ~ret.gone)
          /\ ret.ok => (Lifted(ret) /\ ~DictHas(pending_users, ret.user_id))
    /\ (VerifyReturned /\ ~ret.found) =>
          (~ret.ok /\ ret.msg = "No pending captcha found.")

\* an answer typed with another case, or with blanks, has solved the captcha
C5_Witness ==
    /\ VerifyReturned /\ InTime(ret) /\ ret.ok
    /\ ret.answer # ret.rec.answer
    /\ chat_status[Key(ret.user_id, ret.rec.chat_id)] = "member"
    /\ ~DictHas(pending_users, ret.user_id)

\* C6: verify_captcha called when now > expires_at fails with the expiry
\* message whatever the answer, makes no platform call and does not lift the
\* restriction.
C6_ExpiredAlwaysFails ==
    (VerifyReturned /\ ret.found /\ ret.at > ret.rec.expires) =>
        /\ ~ret.ok
        /\ ret.msg = "Captcha expired."
        /\ ret.calls = 0
        /\ ~Lifted(ret)

\* the correct answer, one second late, of a user who stays restricted
C6_Witness ==
    /\ VerifyReturned /\ ret.found
    /\ ret.at = ret.rec.expires + 1
    /\ AnswerMatches(ret)
    /\ ~ret.ok
    /\ chat_status[Key(ret.user_id, ret.rec.chat_id)] = "restricted"

\* the step is a call of verify_captcha with a wrong answer before expiry
WrongAnswerStep ==
    /\ n_answers' = n_answers + 1
    /\ InTime(ret') /\ ~AnswerMatches(ret')

\* the step is a call of verify_captcha with the correct answer before expiry
CorrectAnswerStep ==
    /\ n_answers' = n_answers + 1
    /\ InTime(ret') /\ AnswerMatches(ret')

\* a wrong answer before expiry returns failure, changes neither the pending
\* records nor any member's status, and makes no platform call
WrongAnswerChangesNothing ==
    WrongAnswerStep =>
        /\ handler'.pc = "returned" /\ ~ret'.ok /\ ret'.calls = 0
        /\ pending_users' = pending_users
        /\ DictGet(pending_users', ret'.user_id) = ret'.rec
        /\ chat_status' = chat_status

C8_SolvedNeverSweptNorRefused ==
    /\ \A p \in outcomes.banned : p[1] \notin outcomes.solved
    /\ ~(VerifyReturned /\ ret.gone)

\* the records that were expired when the sweep started, as (user, group)
DueAtStart ==
    {<<sweep.seen[i].user_id, sweep.seen[i].chat_id>> :
        i \in {j \in 1..Len(sweep.seen) : sweep.at > sweep.seen[j].expires}}

Listed == {<<sweep.expired[i].user_id, sweep.expired[i].chat_id>> :
              i \in 1..Len(sweep.expired)}

Leaves(r) ==
    /\ \E i \in 1..Len(pending_users) : pending_users[i] = r
    /\ ~ \E i \in 1..Len(pending_users') : pending_users'[i] = r

\* C10: a record leaves pending_users only solved, its restriction lifted,
\* or expired, its user banned and unbanned in the record's group, and never
\* both.
C10_LeavesOnlySolvedOrRemoved ==
    [][\A i \in 1..Len(pending_users) :
          LET r == pending_users[i]
              solved == <<r.id, r.chat_id>> \in outcomes'.lifted
              removed == /\ <<r.id, r.chat_id>> \in outcomes'.banned
                         /\ <<r.id, r.chat_id>> \in outcomes'.removed
          IN  Leaves(r) => (solved # removed)]_vars

\* the captcha numbered id is pending
PendingId(id) == \E i \in 1..Len(pending_users) : pending_users[i].id = id

\* the captcha numbered id is pending and its deadline has passed
PendingExpired(id) ==
    \E i \in 1..Len(pending_users) :
        pending_users[i].id = id /\ now > pending_users[i].expires

RecordWritten(user_id) ==
    /\ DictHas(pending_users', user_id)
    /\ \/ ~DictHas(pending_users, user_id)
       \/ DictGet(pending_users, user_id) # DictGet(pending_users', user_id)

\* the step is the start of create_captcha_for_user
JoinStep == n_created' = n_created + 1

\* C12: no user id has two pending captchas; a record is written only by
\* create_captcha_for_user, for the joining user, and what is stored after
\* it is the record of that join: its group, question, answer and the
\* expiry now + CAPTCHA_TIMEOUT, replacing the one the user had.
C12_OnePendingOfLatestJoin ==
    /\ [](\A i, j \in 1..Len(pending_users) :
             pending_users[i].user_id = pending_users[j].user_id => i = j)
    /\ [][/\ \A u \in Users :
               RecordWritten(u) => (JoinStep /\ handler'.user_id = u)
          /\ JoinStep =>
               /\ handler'.op = "create"
               /\ DictHas(pending_users', handler'.user_id)
               /\ DictGet(pending_users', handler'.user_id) = handler'.rec
               /\ handler'.rec.expires = now + CAPTCHA_TIMEOUT
               /\ handler'.rec.id = n_created'
               /\ chat_status'[Key(handler'.user_id, handler'.rec.chat_id)]
                     = "member"]_vars

\* u1, whose captcha of g1 was neither answered nor swept, has joined g2:
\* the only record is the one of g2
C12_Witness ==
    /\ n_created = 2 /\ n_answers = 0 /\ n_sweeps = 0
    /\ Len(pending_users) = 1
    /\ pending_users[1].user_id = "u1"
    /\ pending_users[1].chat_id = "g2"
    /\ pending_users[1].id = 2
    /\ chat_status[Key("u1", "g1")] # "left"

(***************************************************************************)
(* SubscriptionChecker: the channel-subscription gate.  One handler runs   *)
(* at a time; it gives way at each await, where users may join or leave    *)
(* channels and time may pass.                                             *)
(***************************************************************************)
ChannelStatuses == {"left", "member", "administrator", "creator"}

\* config.py as the environment may set it
GateConfigs ==
    [CHECK_SUBSCRIPTION : BOOLEAN, REQUIRED_CHANNEL : {<<>>, ChannelOne},
     ENABLE_MEDIA_FILTERING : {TRUE}, ENABLE_LINK_FILTERING : {TRUE},
     ENABLE_BANNED_WORDS : {TRUE}]

GatedGroup ==
    [welcome_message |-> None,
     settings |-> DefaultSettings,
     admins |-> <<>>,
     banned_words |-> <<>>,
     required_channels |-> <<ChannelOne, ChannelTwo>>]

\* the contents groups.json may have when the gate starts
GateGroupsFiles ==
    { [g \in {"g1"} |-> GatedGroup] }

\* the joins the gate sees, and the users who come and go in the channels
GateJoins == {<<"u1", "g1">>, <<"u1", "g2">>, <<"u2", "g1">>}
ChannelGoers == {"u1"}

\* the instant the clock may jump to while the gate works
GateInstants == {StartTime + CAPTCHA_TIMEOUT}

\* check_user_subscription: the name the lookup is made with
WithAt(channel_username) ==
    IF Len(channel_username) > 0 /\ channel_username[1] = "@"
    THEN channel_username
    ELSE <<"@">> \o channel_username

\* a lookup that lets everybody through
SubscribedStatusAny(status) == TRUE

\* check_user_subscription: member.status in ['member', 'administrator', 'creator']
SubscribedStatus(status) == status \in {"member", "administrator", "creator"}

\* get_chat_member: the status the platform reports, or a TelegramError
get_chat_member(statuses, user_id, name, found) ==
    IF found /\ name \in PlatformChannels THEN statuses[<<user_id, name>>] ELSE "error"

\* check_user_subscription(user_id, channel_username, context)
check_user_subscription(statuses, user_id, channel_username, found) ==
    LET member == get_chat_member(statuses, user_id, WithAt(channel_username), found)
    IN  member # "error" /\ SubscribedStatus(member)

\* verify_new_member_subscription: its first test
NoSubscriptionRequired(cfg) ==
    ~cfg.CHECK_SUBSCRIPTION \/ cfg.REQUIRED_CHANNEL = <<>>

\* group_data.get("required_channels", [])
get_required_channels(group_id) ==
    LET group_data == get_group_data(group_id)
    IN  IF "required_channels" \in DOMAIN group_data
        THEN group_data.required_channels
        ELSE <<>>

\* verify_new_member_subscription: the channels it goes through
ChannelsToCheck(cfg, group_id) ==
    LET required_channels == get_required_channels(group_id)
    IN  IF required_channels = <<>> /\ cfg.REQUIRED_CHANNEL # <<>>
        THEN <<cfg.REQUIRED_CHANNEL>>
        ELSE required_channels

\* the channels the group declares, or else the one the global config declares
DeclaredChannels(cfg, group_id) ==
    LET required_channels == get_required_channels(group_id)
    IN  IF required_channels # <<>> THEN required_channels
        ELSE IF cfg.REQUIRED_CHANNEL # <<>> THEN <<cfg.REQUIRED_CHANNEL>>
        ELSE <<>>

\* the declared channels the user is in none of member, administrator, owner of
Missing(statuses, cfg, user_id, group_id) ==
    LET declared == DeclaredChannels(cfg, group_id)
    IN  {declared[i] : i \in {j \in 1..Len(declared) :
            ~(\E name \in PlatformChannels :
                /\ name = WithAt(declared[j])
                /\ statuses[<<user_id, name>>] \in {"member", "administrator", "creator"})}}

SubscriptionInit ==
    /\ HandlingFresh
    /\ DetectorFresh
    /\ CaptchaFresh
    /\ GateFresh
    /\ groups_file \in GateGroupsFiles
    /\ config \in GateConfigs

TaskFree == task.pc \in {"idle", "returned"}

\* a user joins a group and verify_new_member_subscription is called, up to
\* its return or to its first membership lookup
JoinStart(user_id, chat_id) ==
    LET required_channels == ChannelsToCheck(config, chat_id)
        started == [NoGateRet EXCEPT !.op = "join", !.user_id = user_id,
                                     !.chat_id = chat_id,
                                     !.required = DeclaredChannels(config, chat_id),
                                     !.missing = Missing(channel_status, config,
                                                         user_id, chat_id)]
        called == [IdleTask EXCEPT !.op = "join", !.user_id = user_id,
                                   !.chat_id = chat_id,
                                   !.message_id = n_gate_ops + 1]
    IN  /\ TaskFree
        /\ n_gate_ops < MaxGateOps
        /\ chat_status[Key(user_id, chat_id)] = "left"
        /\ chat_status' = [chat_status EXCEPT ![Key(user_id, chat_id)] = "member"]
        /\ n_gate_ops' = n_gate_ops + 1
        /\ IF NoSubscriptionRequired(config) \/ required_channels = <<>>
           THEN /\ task' = [called EXCEPT !.pc = "returned"]
                /\ gate_ret' = [started EXCEPT !.ok = TRUE]
           ELSE /\ task' = [called EXCEPT !.pc = "join_check",
                                          !.channels = required_channels, !.i = 1]
                /\ gate_ret' = started
        /\ UNCHANGED <<handling_vars, now, detector_vars, config, pending_verification,
                       channel_status, messages, pending_users, handler, ret,
                       sweep, outcomes, n_created, n_answers, n_sweeps>>

\* verify_new_member_subscription: one lookup of its loop returns or raises
JoinCheck(found) ==
    LET channel == task.channels[task.i]
        is_subscribed == check_user_subscription(channel_status, task.user_id,
                                                 channel, found)
    IN  /\ task.pc = "join_check"
        /\ task' = IF is_subscribed
                   THEN IF task.i < Len(task.channels)
                        THEN [task EXCEPT !.i = task.i + 1]
                        ELSE [task EXCEPT !.pc = "returned"]
                   ELSE [task EXCEPT !.pc = "require_restrict", !.channel = channel]
        /\ gate_ret' = [gate_ret EXCEPT
                          !.ok = is_subscribed /\ task.i = Len(task.channels),
                          !.raised = gate_ret.raised \/ ~found,
                          !.channel = channel]
        /\ UNCHANGED <<handling_vars, now, detector_vars, captcha_vars, config,
                       pending_verification, channel_status, messages, n_gate_ops>>

\* send_subscription_requirement: restrict_chat_member returns or raises
RequireRestrict(ok) ==
    /\ task.pc = "require_restrict"
    /\ task' = [task EXCEPT !.pc = IF ok THEN "require_send" ELSE "returned"]
    /\ gate_ret' = [gate_ret EXCEPT !.raised = gate_ret.raised \/ ~ok]
    /\ chat_status' = IF ok
                      THEN restrict_chat_member(chat_status, task.user_id,
                                                task.chat_id, FALSE)
                      ELSE chat_status
    /\ UNCHANGED <<handling_vars, now, detector_vars, config, pending_verification,
                   channel_status, messages, n_gate_ops, pending_users, handler,
                   ret, sweep, outcomes, n_created, n_answers, n_sweeps>>

\* send_subscription_requirement: send_message returns, and the record is
\* stored, or raises
RequireSend(ok) ==
    LET data == [user_id |-> task.user_id, chat_id |-> task.chat_id,
                 message_id |-> task.message_id, channel |-> task.channel]
    IN  /\ task.pc = "require_send"
        /\ task' = [task EXCEPT !.pc = "returned"]
        /\ gate_ret' = [gate_ret EXCEPT !.raised = gate_ret.raised \/ ~ok,
                                        !.data = IF ok THEN data ELSE NoVerification]
        /\ messages' = IF ok THEN messages \cup {data} ELSE messages
        /\ pending_verification' =
              IF ok THEN DictSet(pending_verification, task.user_id, data)
              ELSE pending_verification
        /\ UNCHANGED <<handling_vars, now, detector_vars, captcha_vars, config, channel_status,
                       n_gate_ops>>

\* the user presses "I've Subscribed" under a requirement message made for
\* them: verify_subscription_callback up to its return or to its lookup
CallbackStart(user_id, channel_username) ==
    LET started == [NoGateRet EXCEPT !.op = "callback", !.user_id = user_id,
                                     !.channel = channel_username]
        called == [IdleTask EXCEPT !.op = "callback", !.user_id = user_id,
                                   !.channel = channel_username]
    IN  /\ TaskFree
        /\ n_gate_ops < MaxGateOps
        /\ \E m \in messages : m.user_id = user_id /\ m.channel = channel_username
        /\ n_gate_ops' = n_gate_ops + 1
        /\ IF ~DictHas(pending_verification, user_id)
           THEN /\ task' = [called EXCEPT !.pc = "returned"]
                /\ gate_ret' = [started EXCEPT !.msg = "No pending verification found."]
           ELSE LET verification_data == DictGet(pending_verification, user_id)
                IN  /\ task' = [called EXCEPT !.pc = "recheck",
                                              !.data = verification_data,
                                              !.chat_id = verification_data.chat_id]
                    /\ gate_ret' = [started EXCEPT
                                      !.data = verification_data,
                                      !.chat_id = verification_data.chat_id]
        /\ UNCHANGED <<handling_vars, now, detector_vars, captcha_vars, config,
                       pending_verification, channel_status, messages>>

\* verify_subscription_callback: the membership lookup returns or raises
CallbackCheck(found) ==
    LET member == get_chat_member(channel_status, task.user_id,
                                  WithAt(task.channel), found)
        is_subscribed == check_user_subscription(channel_status, task.user_id,
                                                 task.channel, found)
    IN  /\ task.pc = "recheck"
        /\ task' = [task EXCEPT !.pc = IF is_subscribed THEN "lift" ELSE "returned",
                                !.status = member]
        /\ gate_ret' = [gate_ret EXCEPT
                          !.status = member,
                          !.raised = ~found,
                          !.required = DeclaredChannels(config, task.chat_id),
                          !.missing = Missing(channel_status, config, task.user_id,
                                              task.chat_id),
                          !.msg = IF is_subscribed THEN None
                                  ELSE "You are not subscribed to the required channel yet. Please subscribe first."]
        /\ UNCHANGED <<handling_vars, now, detector_vars, captcha_vars, config,
                       pending_verification, channel_status, messages, n_gate_ops>>

\* verify_subscription_callback: restrict_chat_member returns or raises
CallbackLift(ok) ==
    /\ task.pc = "lift"
    /\ task' = [task EXCEPT !.pc = IF ok THEN "delete_message" ELSE "returned"]
    /\ gate_ret' = IF ok THEN gate_ret
                   ELSE [gate_ret EXCEPT !.raised = TRUE,
                                         !.msg = "Error updating permissions."]
    /\ chat_status' = IF ok
                      THEN restrict_chat_member(chat_status, task.user_id,
                                                task.chat_id, TRUE)
                      ELSE chat_status
    /\ UNCHANGED <<handling_vars, now, detector_vars, config, pending_verification,
                   channel_status, messages, n_gate_ops, pending_users, handler,
                   ret, sweep, outcomes, n_created, n_answers, n_sweeps>>

\* verify_subscription_callback: delete_message returns, or raises and the
\* bare except passes
CallbackDeleteMessage(ok) ==
    /\ task.pc = "delete_message"
    /\ task' = [task EXCEPT !.pc = "welcome"]
    /\ messages' = IF ok
                   THEN {m \in messages : ~(/\ m.chat_id = task.chat_id
                                            /\ m.message_id = task.data.message_id)}
                   ELSE messages
    /\ UNCHANGED <<handling_vars, now, detector_vars, captcha_vars, config, pending_verification,
                   channel_status, gate_ret, n_gate_ops>>

\* verify_subscription_callback: send_message returns, and the record is
\* deleted, or raises
CallbackWelcome(ok) ==
    /\ task.pc = "welcome"
    /\ task' = [task EXCEPT !.pc = "returned"]
    /\ gate_ret' = IF ok
                   THEN [gate_ret EXCEPT !.ok = TRUE,
                                         !.msg = "Subscription verified successfully!"]
                   ELSE [gate_ret EXCEPT !.raised = TRUE,
                                         !.msg = "Error updating permissions."]
    /\ pending_verification' =
          IF ok THEN DictDel(pending_verification, task.user_id)
          ELSE pending_verification
    /\ UNCHANGED <<handling_vars, now, detector_vars, captcha_vars, config, channel_status,
                   messages, n_gate_ops>>

\* check_periodic_subscription: its body is pass
CheckPeriodicSubscription ==
    /\ n_gate_ops < MaxGateOps
    /\ n_gate_ops' = n_gate_ops + 1
    /\ UNCHANGED <<handling_vars, now, detector_vars, captcha_vars, config, pending_verification,
                   channel_status, messages, task, gate_ret>>

\* a user joins or leaves a channel, or is given or loses a role in it
SetChannelStatus(user_id, name, status) ==
    /\ n_gate_ops < MaxGateOps
    /\ channel_status[<<user_id, name>>] # status
    /\ channel_status' = [channel_status EXCEPT ![<<user_id, name>>] = status]
    /\ n_gate_ops' = n_gate_ops + 1
    /\ UNCHANGED <<handling_vars, now, detector_vars, captcha_vars, config, pending_verification,
                   messages, task, gate_ret>>

SubscriptionNext ==
    \/ \E t \in GateInstants : CaptchaTick(t)
    \/ \E j \in GateJoins : JoinStart(j[1], j[2])
    \/ \E found \in BOOLEAN : JoinCheck(found)
    \/ \E ok \in BOOLEAN : RequireRestrict(ok)
    \/ \E ok \in BOOLEAN : RequireSend(ok)
    \/ \E u \in Users, c \in {ChannelOne, ChannelTwo} : CallbackStart(u, c)
    \/ \E found \in BOOLEAN : CallbackCheck(found)
    \/ \E ok \in BOOLEAN : CallbackLift(ok)
    \/ \E ok \in BOOLEAN : CallbackDeleteMessage(ok)
    \/ \E ok \in BOOLEAN : CallbackWelcome(ok)
    \/ CheckPeriodicSubscription
    \/ \E u \in ChannelGoers, name \in PlatformChannels, s \in ChannelStatuses :
          SetChannelStatus(u, name, s)

SpecSubscription == SubscriptionInit /\ [][SubscriptionNext]_vars

\* verify_new_member_subscription has returned
JoinReturned == task.op = "join" /\ task.pc = "returned"

\* a lookup of the call reported the user outside a channel, or the call made
\* no lookup and the user was outside a declared channel when it was made
ReportedOutside ==
    \/ task.channel # <<>>
    \/ task.i = 0 /\ gate_ret.missing # {}

\* the user is restricted in the group and has a record naming it
Gated(user_id, chat_id) ==
    /\ chat_status[Key(user_id, chat_id)] = "restricted"
    /\ DictHas(pending_verification, user_id)
    /\ DictGet(pending_verification, user_id).chat_id = chat_id

\* C13: when verify_new_member_subscription returns for a join into a group
\* that declares required channels, or for which the global config declares
\* one, and the user is outside one of them, and no platform call raised,
\* the user is restricted in the group and a pending record is stored.
C13_UnsubscribedJoinerGated ==
    (/\ JoinReturned
     /\ gate_ret.required # <<>>
     /\ ReportedOutside
     /\ ~gate_ret.raised)
    => Gated(task.user_id, task.chat_id)

\* verify_subscription_callback has returned
CallbackReturned == task.op = "callback" /\ task.pc = "returned"

\* C14: when verify_subscription_callback returns success for a record of a
\* group with several required channels, the user was, at the re-check, a
\* member, administrator or owner of every one of them.
C14_VerifiedOnlyInEveryChannel ==
    (/\ CallbackReturned
     /\ gate_ret.ok
     /\ Len(gate_ret.required) > 1)
    => gate_ret.missing = {}

\* the step takes the user's record out of pending_verification
RecordDeleted(user_id) ==
    /\ DictHas(pending_verification, user_id)
    /\ ~DictHas(pending_verification', user_id)

\* the step is the last one of a verify_subscription_callback of the user
\* whose lookup reported a subscribed status and whose restrict_chat_member
\* returned
SuccessfulCallbackEnds(user_id) ==
    /\ task.op = "callback" /\ task.pc = "welcome" /\ task.user_id = user_id
    /\ task.status \in {"member", "administrator", "creator"}
    /\ task.data = DictGet(pending_verification, user_id)
    /\ chat_status[Key(user_id, task.data.chat_id)] = "member"
    /\ task'.pc = "returned" /\ gate_ret'.ok

\* the step is the return of a verify_subscription_callback whose lookup
\* did not report a subscribed status
FailedRecheckStep ==
    /\ task.op = "callback" /\ task.pc = "recheck" /\ task'.pc = "returned"

SeverityNext ==
    \/ \E d \in FloodSteps : Tick(d)
    \/ \E u \in DetectorUsers, g \in DetectorGroups, m \in Messages, o \in BOOLEAN :
          n_checked < MaxSeverityMsgs /\ CheckMessage(u, g, m, o)

SpecSeverity == DetectorInit /\ [][SeverityNext]_vars

\* the checks that fired on the evaluated message
BannedWordsFired ==
    \/ contains_banned_words(verdict.group, verdict.text)
    \/ /\ verdict.with_object /\ verdict.text # <<>>
       /\ check_banned_words(verdict.group, verdict.text).violation

LinksFired ==
    \/ has_suspicious_links(verdict.text)
    \/ /\ verdict.with_object /\ verdict.text # <<>>
       /\ check_links(verdict.group, verdict.text).violation

StrictLinks ==
    Get(get_group_data(verdict.group), "link_policy", "moderate") = "strict"

MediaFired ==
    verdict.with_object /\ check_media_content(verdict.group, verdict.message).violation

ForwardFired ==
    verdict.with_object
    /\ check_forwarded_content(verdict.group, verdict.message).violation

DeleteHinted ==
    BannedWordsFired \/ (LinksFired /\ StrictLinks) \/ MediaFired \/ ForwardFired

WarnHinted == verdict.repeated \/ (LinksFired /\ ~StrictLinks)

\* C16: when the flood check does not fire, the recommended action is
\* delete if a check hinting delete fired (banned words, links under the
\* strict policy, media, forwards), also when one hinting warn fired too;
\* else warn if a check hinting warn fired (repetition, links under another
\* policy); else there is no action and is_spam is false.
C16_ActionBySeverity ==
    (Called /\ ~verdict.flood) =>
        /\ DeleteHinted => verdict.action_recommended = "delete"
        /\ (~DeleteHinted /\ WarnHinted) => verdict.action_recommended = "warn"
        /\ (~DeleteHinted /\ ~WarnHinted) =>
              (verdict.action_recommended = None /\ ~verdict.is_spam)

\* the step is an evaluation of a message of the key
Evaluates(k) ==
    /\ n_checked' = n_checked + 1
    /\ Key(verdict'.user, verdict'.group) = k

\* message_count as get_spam_data gives it for the key
CountOf(file, k) == IF k \in DOMAIN file THEN file[k].message_count ELSE 0

\* C17: with window_start the time of the message that last reset the
\* counter, a message at time now resets message_count to 1 and opens a
\* new window if now - window_start > 60, and otherwise increments
\* message_count and keeps the window.
C17_WindowAnchoredAtStart ==
    [][\A k \in AllKeys :
          Evaluates(k) =>
              IF now - flood_seq[k].start > FloodWindow
              THEN /\ CountOf(spam_file', k) = 1
                   /\ flood_seq'[k].start = now
              ELSE /\ CountOf(spam_file', k) = CountOf(spam_file, k) + 1
                   /\ flood_seq'[k].start = flood_seq[k].start]_vars

(***************************************************************************)
(* The repetition check on top of a history the detector has stored.       *)
(***************************************************************************)
\* what nine messages, sent more than a minute apart, have left in the file
LongHistory ==
    <<TextSpam, TextSpam, TextSpam, TextHi, TextHi, TextHi, TextHi, TextHi, TextHi>>

StoredHistories == {<<>>, LongHistory}

HistoryMessages ==
    { Msg(TextSpam, NoMedia, NoForward),
      Msg(TextSpamShout, NoMedia, NoForward),
      Msg(TextHi, NoMedia, NoForward) }

HistoryInit ==
    /\ HandlingFresh
    /\ now = StartTime
    /\ \E h \in StoredHistories :
          /\ spam_file =
                IF h = <<>> THEN <<>>
                ELSE [k \in {Key("u1", "g1")} |->
                        [message_count |-> 1,
                         last_message_time |-> StartTime - (FloodWindow + 1),
                         recent_messages |-> h, warnings |-> 0]]
          /\ flood_seq =
                [k \in AllKeys |->
                    IF h # <<>> /\ k = Key("u1", "g1")
                    THEN [n |-> Len(h),
                          first |-> StartTime - Len(h) * (FloodWindow + 1),
                          start |-> StartTime - (FloodWindow + 1)]
                    ELSE [n |-> 0, first |-> 0, start |-> 0]]
    /\ verdict = NoVerdict
    /\ warn_ret = NoWarnRet
    /\ ladder = [k \in AllKeys |-> [n |-> 0, resets |-> 0, peak |-> 0]]
    /\ n_checked = 0
    /\ n_warn_ops = 0
    /\ groups_file = <<>>
    /\ CaptchaFresh
    /\ SubscriptionFresh

HistoryNext ==
    \/ \E d \in FloodSteps : Tick(d)
    \/ \E u \in DetectorUsers, g \in DetectorGroups, m \in HistoryMessages :
          n_checked < MaxHistoryMsgs /\ CheckMessage(u, g, m, FALSE)

SpecHistory == HistoryInit /\ [][HistoryNext]_vars

\* recent_messages as get_spam_data gives it for the key
HistoryOf(file, k) == IF k \in DOMAIN file THEN file[k].recent_messages ELSE <<>>

\* C18: is_spam_message reports repeated content iff at least
\* spam_threshold of the messages in the stored history, the current one
\* not among them, are similar to the current normalised text at
\* similarity_threshold or more; the history holds at most the 10 most
\* recent messages, and after the call the current one is the last of them.
C18_RepeatedIffEnoughSimilarInHistory ==
    [][\A k \in AllKeys :
          Evaluates(k) =>
              LET h == HistoryOf(spam_file, k)
                  h2 == HistoryOf(spam_file', k)
                  text == clean_message(verdict'.text)
                  similar == {i \in 1..Len(h) : SimilarityAtLeastThreshold(text, h[i])}
              IN  /\ Len(h) <= RecentCap
                  /\ verdict'.repeated <=> Cardinality(similar) >= SPAM_THRESHOLD
                  /\ Len(h2) = (IF Len(h) < RecentCap THEN Len(h) + 1 ELSE RecentCap)
                  /\ h2[Len(h2)] = text
                  /\ \A i \in 1..(Len(h2) - 1) : h2[i] = h[Len(h) + 1 - Len(h2) + i]]_vars

\* the history is full and has lost two of the three stored "spam": the
\* "spam" sent now is not reported, though four were sent in all
C18_Witness ==
    /\ Called
    /\ flood_seq[VerdictKey].n = Len(LongHistory) + 3
    /\ Len(spam_file[VerdictKey].recent_messages) = RecentCap
    /\ spam_file[VerdictKey].recent_messages[1] = TextSpam
    /\ spam_file[VerdictKey].recent_messages[2] = TextHi
    /\ verdict.text = TextSpam
    /\ ~verdict.repeated

(***************************************************************************)
(* The warning count under everything that writes spam_data.json or the    *)
(* audit log: message evaluations, increment_warnings, the /resetwarnings  *)
(* command and log_action.                                                 *)
(***************************************************************************)
\* a check that lets everybody through
is_admin_anyone(status, found) == TRUE

\* utils.is_admin: the status the platform reports is ADMINISTRATOR or OWNER;
\* a lookup that raises gives False
is_admin(status, found) == found /\ status \in {"administrator", "creator"}

\* a faulty variant: the log is never cut
LogActionInUncapped(file, group_id, at, admin_id, action, target_user, reason) ==
    LET group_data == IF group_id \in DOMAIN file THEN file[group_id] ELSE <<>>
        log_entry == [timestamp |-> at, admin_id |-> admin_id, action |-> action,
                      target_user |-> target_user, reason |-> reason]
        action_log == Get(group_data, "action_log", <<>>)
    IN  Put(file, group_id, Put(group_data, "action_log", Append(action_log, log_entry)))

\* StorageManager.log_action on the file contents `file`, at time `at`
LogActionIn(file, group_id, at, admin_id, action, target_user, reason) ==
    LET group_data == IF group_id \in DOMAIN file THEN file[group_id] ELSE <<>>
        log_entry == [timestamp |-> at, admin_id |-> admin_id, action |-> action,
                      target_user |-> target_user, reason |-> reason]
        action_log == Get(group_data, "action_log", <<>>)
    IN  Put(file, group_id,
            Put(group_data, "action_log", LastN(Append(action_log, log_entry),
                                                ActionLogCap)))

\* the roles u2 may hold in g1 while the commands are issued; u1 is a member
IssuerRoles == {"member", "administrator", "creator"}

ModerationInit ==
    /\ HandlingFresh
    /\ DetectorFresh
    /\ groups_file \in InitialGroupsFiles
    /\ pending_users = <<>>
    /\ \E role \in IssuerRoles :
          chat_status = [k \in AllKeys |->
                            IF k = Key("u2", "g1") THEN role
                            ELSE IF k[1] = "g1" THEN "member" ELSE "left"]
    /\ handler = IdleHandler
    /\ ret = NoRet
    /\ sweep = IdleSweep
    /\ outcomes = [lifted |-> {}, solved |-> {}, banned |-> {}, removed |-> {},
                   wrong |-> [u \in Users |-> 0]]
    /\ n_created = 0
    /\ n_answers = 0
    /\ n_sweeps = 0
    /\ SubscriptionFresh

\* handlers.reset_warnings_command, issued by `issuer` in a private chat or
\* in the group, on the user replied to or named (None: nobody resolved);
\* the lookup of is_admin and the reply return or raise
ResetWarningsCommand(issuer, private, found, target_user, group_id, reply_ok) ==
    LET passed == is_admin(chat_status[Key(issuer, group_id)], found)
        refused == private \/ ~passed \/ target_user = None
        spam_data == get_spam_data(target_user, group_id)
        rung == ladder[Key(target_user, group_id)]
    IN  /\ n_warn_ops < MaxWarnOps
        /\ n_warn_ops' = n_warn_ops + 1
        /\ warn_ret' = [op |-> IF refused THEN "reset_refused" ELSE "reset",
                        user |-> target_user, group |-> group_id, count |-> 0,
                        action |-> None, issuer |-> issuer]
        /\ IF refused
           THEN UNCHANGED <<spam_file, ladder, groups_file>>
           ELSE /\ spam_file' = SaveSpamDataIn(spam_file, target_user, group_id,
                                               [spam_data EXCEPT !.warnings = 0])
                /\ ladder' = [ladder EXCEPT ![Key(target_user, group_id)] =
                                 [n |-> 0, resets |-> rung.resets + 1,
                                  peak |-> rung.peak]]
                /\ groups_file' =
                      IF reply_ok
                      THEN LogActionIn(groups_file, group_id, now, issuer,
                                       "reset_warnings", target_user,
                                       "Warnings cleared by admin")
                      ELSE groups_file
        /\ UNCHANGED <<handling_vars, now, verdict, flood_seq, n_checked, captcha_vars,
                       subscription_vars>>

\* handle_messages: the audit entry it writes after acting on a spam verdict
LogSpamDetection(user_id, group_id) ==
    /\ verdict.user = user_id /\ verdict.group = group_id /\ verdict.is_spam
    /\ n_warn_ops < MaxWarnOps
    /\ n_warn_ops' = n_warn_ops + 1
    /\ groups_file' = LogActionIn(groups_file, group_id, now, "bot",
                                  <<"spam_detection_", verdict.action_recommended>>,
                                  user_id, verdict.reasons)
    /\ UNCHANGED <<handling_vars, now, spam_file, verdict, warn_ret, flood_seq, ladder, n_checked,
                   captcha_vars, subscription_vars>>

\* the message the moderated user sends: it holds a banned word of StrictGroup
ModerationMessages == {Msg(TextSpam, NoMedia, NoForward)}

ModerationNext ==
    \/ \E u \in DetectorUsers, g \in DetectorGroups :
          n_warn_ops < MaxModerationOps /\ IncrementWarnings(u, g)
    \/ \E issuer \in Users, private \in BOOLEAN, found \in BOOLEAN,
          target \in DetectorUsers \cup {None}, g \in DetectorGroups,
          reply_ok \in BOOLEAN :
          /\ n_warn_ops < MaxModerationOps
          /\ ResetWarningsCommand(issuer, private, found, target, g, reply_ok)
    \/ \E u \in DetectorUsers, g \in DetectorGroups :
          n_warn_ops < MaxModerationOps /\ LogSpamDetection(u, g)
    \/ \E u \in DetectorUsers, g \in DetectorGroups, m \in ModerationMessages :
          n_checked < MixedMsgs /\ CheckMessage(u, g, m, TRUE)

SpecModeration == ModerationInit /\ [][ModerationNext]_vars

\* warnings as get_spam_data gives it for the key
WarningsOf(file, k) == IF k \in DOMAIN file THEN file[k].warnings ELSE 0

Unstored(g) == g \notin DOMAIN groups_file

StoredIn(file, k) == IF k \in DOMAIN file THEN <<file[k]>> ELSE <<>>

\* get_group_data on the file contents `file`
GroupDataIn(file, g) == IF g \in DOMAIN file THEN file[g] ELSE default_group

\* C21: a step that gives a record to a group that had none (log_action
\* appending an audit entry) changes only the action_log of what
\* get_group_data returns for the group, and the banned-word, link, media
\* and forward checks give the same result after the step as before it.
C21_LogActionKeepsDefaults ==
    [][\A g \in Groups :
          (Unstored(g) /\ g \in DOMAIN groups_file') =>
              /\ \A m \in Messages :
                    /\ check_banned_words(g, m.text)' = check_banned_words(g, m.text)
                    /\ check_links(g, m.text)' = check_links(g, m.text)
                    /\ check_media_content(g, m)' = check_media_content(g, m)
                    /\ check_forwarded_content(g, m)' = check_forwarded_content(g, m)
              /\ \A key \in DOMAIN default_group :
                    /\ key \in DOMAIN GroupDataIn(groups_file', g)
                    /\ GroupDataIn(groups_file', g)[key] = default_group[key]]_vars

(***************************************************************************)
(* handle_messages, for calls that may overlap: a call gives way at each   *)
(* await, and between two awaits it runs alone.                            *)
(***************************************************************************)
OverlapMessages ==
    { Msg(TextSpam, NoMedia, NoForward), Msg(TextHi, NoMedia, NoForward) }

OverlapInit ==
    /\ now = StartTime
    /\ \E h \in StoredHistories :
          /\ spam_file =
                IF h = <<>> THEN <<>>
                ELSE [k \in {Key("u1", "g1")} |->
                        [message_count |-> 1,
                         last_message_time |-> StartTime - (FloodWindow + 1),
                         recent_messages |-> h, warnings |-> 0]]
          /\ flood_seq =
                [k \in AllKeys |->
                    IF h # <<>> /\ k = Key("u1", "g1")
                    THEN [n |-> Len(h),
                          first |-> StartTime - Len(h) * (FloodWindow + 1),
                          start |-> StartTime - (FloodWindow + 1)]
                    ELSE [n |-> 0, first |-> 0, start |-> 0]]
          /\ evaluated =
                [k \in AllKeys |->
                    IF h # <<>> /\ k = Key("u1", "g1")
                    THEN [texts |-> h, run |-> 1, last |-> StartTime - (FloodWindow + 1)]
                    ELSE [texts |-> <<>>, run |-> 0, last |-> 0]]
    /\ verdict = NoVerdict
    /\ warn_ret = NoWarnRet
    /\ ladder = [k \in AllKeys |-> [n |-> 0, resets |-> 0, peak |-> 0]]
    /\ n_checked = 0
    /\ n_warn_ops = 0
    /\ groups_file \in InitialGroupsFiles
    /\ in_flight = [h \in Handlers |-> IdleCall]
    /\ filter_ret = NoFilterRet
    /\ CallsFresh
    /\ CaptchaFresh
    /\ SubscriptionFresh

\* the calls that have not evaluated their message yet
Waiting == {h \in Handlers : in_flight[h].pc = "is_admin"}

\* lines 482-493: a message arrives in a group and the call awaits is_admin
HandleStart(h, user_id, chat_id, message) ==
    /\ in_flight[h].pc = "idle"
    /\ n_checked + Cardinality(Waiting) < MaxOverlapMsgs
    /\ in_flight' = [in_flight EXCEPT ![h] =
                        [pc |-> "is_admin", user_id |-> user_id, chat_id |-> chat_id,
                         message |-> message, action |-> None, reasons |-> <<>>]]
    /\ UNCHANGED <<now, detector_vars, captcha_vars, subscription_vars, evaluated,
                   filter_ret, call_vars>>

\* lines 493-506: is_admin has answered (or raised: `found` is false); an
\* administrator's message and a group with anti-spam off are left alone,
\* else check_message runs, up to the await of message.delete()
HandleCheck(h, found) ==
    LET call == in_flight[h]
        k == Key(call.user_id, call.chat_id)
        seen == evaluated[k]
        settings == Get(get_group_data(call.chat_id), "settings", <<>>)
    IN  /\ call.pc = "is_admin"
        /\ IF \/ is_admin(chat_status[k], found)
              \/ ~Get(settings, "anti_spam_enabled", TRUE)
           THEN /\ in_flight' = [in_flight EXCEPT ![h] = IdleCall]
                /\ UNCHANGED <<detector_vars, evaluated>>
           ELSE /\ Evaluate(call.user_id, call.chat_id, call.message, TRUE, ReadsOk)
                /\ in_flight' = [in_flight EXCEPT ![h] =
                                    IF verdict'.is_spam
                                    THEN [call EXCEPT
                                             !.pc = "delete",
                                             !.action = verdict'.action_recommended,
                                             !.reasons = verdict'.reasons]
                                    ELSE IdleCall]
                /\ evaluated' = [evaluated EXCEPT ![k] =
                                    [texts |-> Append(seen.texts,
                                                      clean_message(call.message.text)),
                                     run |-> IF now - seen.last > FloodWindow THEN 1
                                             ELSE seen.run + 1,
                                     last |-> now]]
        /\ UNCHANGED <<now, captcha_vars, subscription_vars, filter_ret, call_vars>>

\* lines 507-543: message.delete() has returned or raised; on "warn" the
\* warning count is raised, and the call awaits the notice it sends
HandleAct(h, ok) ==
    LET call == in_flight[h]
        spam_data == get_spam_data(call.user_id, call.chat_id)
    IN  /\ call.pc = "delete"
        /\ in_flight' = [in_flight EXCEPT ![h] =
                            IF ok THEN [call EXCEPT !.pc = "notice"] ELSE IdleCall]
        /\ spam_file' =
              IF ok /\ call.action = "warn"
              THEN SaveSpamDataIn(spam_file, call.user_id, call.chat_id,
                                  [spam_data EXCEPT !.warnings = spam_data.warnings + 1])
              ELSE spam_file
        /\ UNCHANGED <<now, groups_file, verdict, warn_ret, flood_seq, ladder,
                       n_checked, n_warn_ops, captcha_vars, subscription_vars,
                       evaluated, filter_ret, call_vars>>

\* lines 545-552: the notices are sent, or one of them raised; the audit
\* entry is written when none did
HandleLog(h, ok) ==
    LET call == in_flight[h]
    IN  /\ call.pc = "notice"
        /\ in_flight' = [in_flight EXCEPT ![h] = IdleCall]
        /\ groups_file' =
              IF ok
              THEN LogActionIn(groups_file, call.chat_id, now, "bot",
                               <<"spam_detection_", call.action>>, call.user_id,
                               call.reasons)
              ELSE groups_file
        /\ UNCHANGED <<now, spam_file, verdict, warn_ret, flood_seq, ladder,
                       n_checked, n_warn_ops, captcha_vars, subscription_vars,
                       evaluated, filter_ret, call_vars>>

OverlapNext ==
    \/ \E d \in FloodSteps : Tick(d)
    \/ \E h \in Handlers, u \in DetectorUsers, g \in DetectorGroups,
          m \in OverlapMessages : HandleStart(h, u, g, m)
    \/ \E h \in Handlers, found \in BOOLEAN : HandleCheck(h, found)
    \/ \E h \in Handlers, ok \in BOOLEAN : HandleAct(h, ok)
    \/ \E h \in Handlers, ok \in BOOLEAN : HandleLog(h, ok)

SpecOverlap == OverlapInit /\ [][OverlapNext]_vars

LongLog ==
    [i \in 1..(ActionLogCap - 1) |->
        [timestamp |-> i, admin_id |-> "bot",
         action |-> <<"spam_detection_", "delete">>, target_user |-> "u1",
         reason |-> <<"banned_words">>]]

AuditGroupsFiles ==
    { <<>>, [g \in {"g1"} |-> Put(StrictGroup, "action_log", LongLog)] }

\* u2 administers g1, u1 is a member of it
AuditInit ==
    /\ HandlingFresh
    /\ DetectorFresh
    /\ groups_file \in AuditGroupsFiles
    /\ pending_users = <<>>
    /\ chat_status = [k \in AllKeys |->
                          IF k = Key("u2", "g1") THEN "administrator"
                          ELSE IF k[1] = "g1" THEN "member" ELSE "left"]
    /\ handler = IdleHandler
    /\ ret = NoRet
    /\ sweep = IdleSweep
    /\ outcomes = [lifted |-> {}, solved |-> {}, banned |-> {}, removed |-> {},
                   wrong |-> [u \in Users |-> 0]]
    /\ n_created = 0
    /\ n_answers = 0
    /\ n_sweeps = 0
    /\ SubscriptionFresh

SpecAudit == AuditInit /\ [][ModerationNext]_vars

\* the action_log of the group on the file contents
LogOf(file, g) == IF g \in DOMAIN file THEN Get(file[g], "action_log", <<>>) ELSE <<>>

FlagConfigs ==
    [CHECK_SUBSCRIPTION : {FALSE}, REQUIRED_CHANNEL : {<<>>},
     ENABLE_MEDIA_FILTERING : BOOLEAN, ENABLE_LINK_FILTERING : BOOLEAN,
     ENABLE_BANNED_WORDS : BOOLEAN]

FlagsInit ==
    /\ HandlingFresh
    /\ DetectorFresh
    /\ groups_file \in InitialGroupsFiles
    /\ CaptchaFresh
    /\ GateFresh
    /\ config \in FlagConfigs

FlagsNext ==
    \E u \in DetectorUsers, g \in DetectorGroups, m \in Messages, o \in BOOLEAN :
        n_checked < MaxFlagMsgs /\ CheckMessage(u, g, m, o)

SpecFlags == FlagsInit /\ [][FlagsNext]_vars

\* the reasons each kind of check puts into a verdict
BannedWordReasons == {"banned_words", "Contains banned word(s)"}

LinkReasons ==
    {"suspicious_links", "External link not whitelisted"}
    \cup {suspicious_domains[c].link_reason : c \in 1..Len(suspicious_domains)}

MediaReasons ==
    {"Media content not allowed in this group", "Images not allowed",
     "Videos not allowed", "Audio files not allowed", "Documents not allowed",
     "Stickers not allowed", "GIFs/animations not allowed", "File too large",
     "Potentially harmful file type"}

\* C26: with ENABLE_BANNED_WORDS off no verdict of check_message carries a
\* banned-word reason, with ENABLE_LINK_FILTERING off none carries a link
\* reason, with ENABLE_MEDIA_FILTERING off none carries a media reason,
\* whatever the group's policy is.
C26_FlagOffSilencesItsCheck ==
    Called =>
        LET reasons == SeqRange(verdict.reasons)
        IN  /\ ~ENABLE_BANNED_WORDS => reasons \cap BannedWordReasons = {}
            /\ ~ENABLE_LINK_FILTERING => reasons \cap LinkReasons = {}
            /\ ~ENABLE_MEDIA_FILTERING => reasons \cap MediaReasons = {}

(***************************************************************************)
(* The content filter on its own: comprehensive_content_check on messages  *)
(* of every kind, for groups with every kind of policy.                    *)
(***************************************************************************)
TextShortener == <<"s", "e", "e", " ", "h", "t", "t", "p", ":", "/", "/", "t", ".", "c", "o", "/", "a">>
TextWhitelisted == <<"h", "t", "t", "p", ":", "/", "/", "e", "x", "a", "m", "p", "l", "e", ".", "c", "o", "m", "/", "x">>
TextSubdomain == <<"h", "t", "t", "p", "s", ":", "/", "/", "w", "w", "w", ".", "E", "x", "a", "m", "p", "l", "e", ".", "c", "o", "m">>
TextOther == <<"h", "t", "t", "p", ":", "/", "/", "o", "t", "h", "e", "r", ".", "o", "r", "g", "/">>
TextLookalike == <<"h", "t", "t", "p", ":", "/", "/", "e", "x", "a", "m", "p", "l", "e", ".", "c", "o", "m", ".", "e", "v", "i", "l", ".", "i", "o", "/">>
TextTwoLinks == <<"h", "t", "t", "p", ":", "/", "/", "b", "i", "t", ".", "l", "y", "/", "x", " ", "h", "t", "t", "p", ":", "/", "/", "o", "t", "h", "e", "r", ".", "o", "r", "g">>
TextBareDomain == <<"v", "i", "s", "i", "t", " ", "b", "i", "t", ".", "l", "y">>
TextBracket == <<"h", "t", "t", "p", ":", "/", "/", "[", "x", "/">>

FilterTexts ==
    {TextSpam, TextSpamShout, TextHi, TextShortener, TextWhitelisted, TextSubdomain,
     TextOther, TextLookalike, TextTwoLinks, TextBareDomain, TextBracket}

\* a document; file_size and file_name are optional fields of the platform's
\* Document and are None when the sender gave none
Document(file_size, file_name) ==
    [NoMedia EXCEPT !.has_document = TRUE, !.file_size = file_size,
                    !.file_name = file_name]

FilterMedia ==
    { [NoMedia EXCEPT !.photo = TRUE],
      [NoMedia EXCEPT !.video = TRUE],
      [NoMedia EXCEPT !.audio = TRUE],
      [NoMedia EXCEPT !.sticker = TRUE],
      [Document(4096, <<"a", ".", "m", "p", "4">>) EXCEPT !.animation = TRUE],
      Document(4096, <<"a", ".", "p", "d", "f">>),
      Document(4096, <<"A", ".", "E", "X", "E">>),
      Document(4096, <<"r", "u", "n", ".", "s", "h">>),
      Document(DefaultMaxFileSize, <<"a", ".", "p", "d", "f">>),
      Document(25 * 1024 * 1024, <<"a", ".", "p", "d", "f">>),
      [Document(4096, <<>>) EXCEPT !.name_is_none = TRUE],
      [Document(0, <<"a", ".", "p", "d", "f">>) EXCEPT !.size_is_none = TRUE] }

FilterForwards ==
    { [forward_date |-> TRUE, forward_chat_type |-> "channel", forward_from |-> None],
      [forward_date |-> TRUE, forward_chat_type |-> "group", forward_from |-> None],
      [forward_date |-> TRUE, forward_chat_type |-> "supergroup", forward_from |-> None],
      [forward_date |-> TRUE, forward_chat_type |-> None, forward_from |-> "user"],
      [forward_date |-> TRUE, forward_chat_type |-> None, forward_from |-> "bot"],
      [forward_date |-> TRUE, forward_chat_type |-> None, forward_from |-> None] }

\* texts alone, attachments with and without a caption-free text, forwards
FilterMessages ==
    {Msg(t, NoMedia, NoForward) : t \in FilterTexts}
    \cup {Msg(<<>>, m, NoForward) : m \in FilterMedia}
    \cup {Msg(TextHi, NoMedia, f) : f \in FilterForwards}
    \cup {Msg(TextSpam, [NoMedia EXCEPT !.photo = TRUE], f) : f \in FilterForwards}

ModerateGroup ==
    [welcome_message |-> None,
     settings |-> DefaultSettings,
     admins |-> <<>>,
     banned_words |-> << <<"b", "u", "y">> >>,
     link_policy |-> "moderate",
     whitelisted_domains |-> <<>>,
     media_policy |-> [block_all_media |-> TRUE],
     forward_policy |-> "block"]

PermissiveGroup ==
    [welcome_message |-> None,
     settings |-> DefaultSettings,
     admins |-> <<>>,
     banned_words |-> <<>>,
     link_policy |-> "permissive",
     media_policy |-> [block_all_media |-> FALSE, block_documents |-> TRUE,
                       block_stickers |-> TRUE, block_gifs |-> TRUE,
                       block_videos |-> TRUE, block_audio |-> TRUE,
                       max_file_size |-> 4096],
     forward_policy |-> "allow"]

\* groups.json: no record for g1, the record a first audit entry leaves, the
\* defaults saved as they are, and three configured groups
FilterGroupsFiles ==
    { <<>>,
      LogActionIn(<<>>, "g1", StartTime, "bot", "kick", "u1", <<>>),
      [g \in {"g1"} |-> default_group],
      [g \in {"g1"} |-> StrictGroup],
      [g \in {"g1"} |-> ModerateGroup],
      [g \in {"g1"} |-> PermissiveGroup] }

FilterInit ==
    /\ HandlingFresh
    /\ DetectorFresh
    /\ groups_file \in FilterGroupsFiles
    /\ CaptchaFresh
    /\ SubscriptionFresh

\* check_media_content raises on a document without a size (line 190, None
\* compared with an int) or without a name (line 195, None.lower())
MediaRaises(message) ==
    /\ ENABLE_MEDIA_FILTERING
    /\ message.media.has_document
    /\ (message.media.size_is_none \/ message.media.name_is_none)

\* ContentFilter.comprehensive_content_check(group_id, message): the four
\* checks in turn, up to the one that raises
ContentCheck(group_id, message) ==
    LET with_text == message.text # <<>>
        raised == MediaRaises(message)
    IN  /\ filter_ret' =
              [group |-> group_id, message |-> message, raised |-> raised,
               banned |-> IF with_text THEN check_banned_words(group_id, message.text)
                          ELSE NoViolation,
               links |-> IF with_text THEN check_links(group_id, message.text)
                         ELSE NoViolation,
               media |-> IF raised THEN NoViolation
                         ELSE check_media_content(group_id, message),
               forward |-> IF raised THEN NoViolation
                           ELSE check_forwarded_content(group_id, message)]
        /\ UNCHANGED <<now, detector_vars, captcha_vars, subscription_vars,
                       in_flight, evaluated, call_vars>>

FilterNext ==
    \E g \in DetectorGroups, m \in FilterMessages : ContentCheck(g, m)

SpecFilter == FilterInit /\ [][FilterNext]_vars

\* a content check has been made
Checked == filter_ret.group # None

\* the word list the group has configured: none without a stored record
ConfiguredWords(g) ==
    IF Unstored(g) THEN <<>> ELSE Get(groups_file[g], "banned_words", <<>>)

\* C27: the banned-word check reports a violation with action "delete"
\* exactly when the lower-cased text contains a lower-cased word of the
\* group's word list, and for a group with no words configured (a group with
\* no stored record included) the list is the built-in default list.
C27_BannedWordsFallBackToDefaults ==
    (Checked /\ filter_ret.message.text # <<>>) =>
        LET configured == ConfiguredWords(filter_ret.group)
            word_list == IF configured = <<>> THEN default_banned_words ELSE configured
            text_lower == Lower(filter_ret.message.text)
        IN  filter_ret.banned =
                IF \E word \in SeqRange(word_list) : Contains(text_lower, Lower(word))
                THEN Violation(<<"Contains banned word(s)">>, "delete")
                ELSE NoViolation

\* C28: under the strict link policy every URL whose domain is not in the
\* group's whitelist (the domain is a whitelisted one or a subdomain of one)
\* yields one "not whitelisted" violation, every URL whose domain matches the
\* built-in suspicious lists yields one more, and the action is "delete";
\* under the other policies the suspicious URLs alone are violations and the
\* action is "warn"; a text without URLs is never a violation.
C28_LinkVerdictFollowsPolicy ==
    (Checked /\ filter_ret.message.text # <<>>) =>
        LET group_data == GroupDataIn(groups_file, filter_ret.group)
            strict == Get(group_data, "link_policy", "moderate") = "strict"
            whitelist == Get(group_data, "whitelisted_domains", <<>>)
            urls == FindUrls(filter_ret.message.text)
            Domain(i) == Lower(Netloc(urls[i]))
            Whitelisted(domain) ==
                \E allowed \in SeqRange(whitelist) :
                    domain = allowed \/ EndsWith(domain, <<".">> \o allowed)
            outside == {i \in 1..Len(urls) : ~Whitelisted(Domain(i))}
            suspicious == {i \in 1..Len(urls) : SuspiciousCategory(Domain(i)) # 0}
            reasons == filter_ret.links.reasons
            not_whitelisted ==
                {j \in 1..Len(reasons) : reasons[j] = "External link not whitelisted"}
            expected == IF strict THEN Cardinality(outside) + Cardinality(suspicious)
                        ELSE Cardinality(suspicious)
        IN  /\ Len(reasons) = expected
            /\ Cardinality(not_whitelisted) = IF strict THEN Cardinality(outside) ELSE 0
            /\ filter_ret.links.violation <=> expected > 0
            /\ filter_ret.links.violation =>
                   filter_ret.links.action = IF strict THEN "delete" ELSE "warn"

\* C29: the media check returns a verdict for every message, and the verdict
\* is a violation, with action "delete", exactly when block_all_media is set
\* and the message carries any media, or block_all_media is unset and the
\* block flag of an attached media type is set, or a document is larger than
\* max_file_size (20 MB unless configured), or a document's name ends in a
\* dangerous extension.
C29_MediaVerdictFollowsPolicy ==
    Checked =>
        LET media == filter_ret.message.media
            media_policy ==
                Get(GroupDataIn(groups_file, filter_ret.group), "media_policy", <<>>)
            Blocked(flag) == Get(media_policy, flag, FALSE)
            by_type ==
                IF Blocked("block_all_media") THEN AnyMedia(media)
                ELSE \/ media.photo /\ Blocked("block_images")
                     \/ media.video /\ Blocked("block_videos")
                     \/ media.audio /\ Blocked("block_audio")
                     \/ media.has_document /\ Blocked("block_documents")
                     \/ media.sticker /\ Blocked("block_stickers")
                     \/ media.animation /\ Blocked("block_gifs")
            too_large ==
                /\ media.has_document
                /\ ~media.size_is_none
                /\ media.file_size > Get(media_policy, "max_file_size", DefaultMaxFileSize)
            dangerous ==
                /\ media.has_document
                /\ ~media.name_is_none
                /\ \E ext \in SeqRange(dangerous_extensions) :
                       EndsWith(Lower(media.file_name), ext)
        IN  /\ ~filter_ret.raised
            /\ filter_ret.media.violation <=> (by_type \/ too_large \/ dangerous)
            /\ filter_ret.media.violation => filter_ret.media.action = "delete"

\* C30: the forward check reports a violation exactly when the message is
\* forwarded and either the group's forward policy is "block", or it is
\* "restrict" and the message was forwarded from a channel, from a group or
\* supergroup, or from a bot account; every violation carries the action
\* "delete".  A message that is not forwarded, a group whose policy is
\* "allow", and a forward from an ordinary user under "restrict" give none.
C30_ForwardVerdictFollowsPolicy ==
    (Checked /\ ~filter_ret.raised) =>
        LET fwd == filter_ret.message.fwd
            forward_policy ==
                Get(GroupDataIn(groups_file, filter_ret.group), "forward_policy", "allow")
            restricted_origin ==
                \/ fwd.forward_chat_type \in {"channel", "group", "supergroup"}
                \/ fwd.forward_from = "bot"
        IN  /\ filter_ret.forward.violation <=>
                   /\ fwd.forward_date
                   /\ \/ forward_policy = "block"
                      \/ forward_policy = "restrict" /\ restricted_origin
            /\ filter_ret.forward.violation => filter_ret.forward.action = "delete"

\* a forward from a bot account was checked in a group that restricts forwards
C30_Witness ==
    /\ Checked
    /\ Get(GroupDataIn(groups_file, filter_ret.group), "forward_policy", "allow") = "restrict"
    /\ filter_ret.message.fwd.forward_date
    /\ filter_ret.message.fwd.forward_from = "bot"
    /\ filter_ret.forward = Violation(<<"Messages forwarded from bots not allowed">>, "delete")

(***************************************************************************)
(* The two files under reads that may fail: _read_json gives {} when the   *)
(* file is missing or does not parse, and every save writes back the map   *)
(* it has read with one key set.                                           *)
(***************************************************************************)
\* the outcomes of the four reads of one evaluation: all succeed, the read of
\* is_flood's save fails, the read of is_spam_message's get fails
ReadOutcomes ==
    {ReadsOk, <<TRUE, FALSE, TRUE, TRUE>>, <<TRUE, TRUE, FALSE, TRUE>>}

\* the operations made so far on the two files
StorageOps == n_checked + n_warn_ops

\* u2 administers the groups, u1 is a member of them
StorageInit ==
    /\ HandlingFresh
    /\ DetectorFresh
    /\ groups_file \in InitialGroupsFiles
    /\ pending_users = <<>>
    /\ chat_status = [k \in AllKeys |-> IF k[2] = "u2" THEN "administrator"
                                        ELSE "member"]
    /\ handler = IdleHandler
    /\ ret = NoRet
    /\ sweep = IdleSweep
    /\ outcomes = [lifted |-> {}, solved |-> {}, banned |-> {}, removed |-> {},
                   wrong |-> [u \in Users |-> 0]]
    /\ n_created = 0
    /\ n_answers = 0
    /\ n_sweeps = 0
    /\ SubscriptionFresh

\* check_message with each of its four reads of spam_data.json succeeding or not
EvaluateReading(user_id, group_id, message, reads) ==
    /\ Evaluate(user_id, group_id, message, TRUE, reads)
    /\ UNCHANGED handling_vars

\* increment_warnings / reset_warnings: get_spam_data, then save_spam_data,
\* each with its own read of the file
WarningsReading(user_id, group_id, reset, get_ok, save_ok) ==
    LET spam_data == SpamDataIn(read_json(spam_file, get_ok), user_id, group_id)
        warnings == IF reset THEN 0 ELSE spam_data.warnings + 1
    IN  /\ StorageOps < MaxStorageOps
        /\ n_warn_ops' = n_warn_ops + 1
        /\ spam_file' = SaveSpamDataIn(read_json(spam_file, save_ok), user_id, group_id,
                                       [spam_data EXCEPT !.warnings = warnings])
        /\ warn_ret' = [op |-> IF reset THEN "reset" ELSE "increment",
                        user |-> user_id, group |-> group_id, count |-> warnings,
                        action |-> None]
        /\ UNCHANGED <<handling_vars, now, groups_file, verdict, flood_seq, ladder,
                       n_checked, captcha_vars, subscription_vars>>

\* StorageManager.save_group_data on the file contents `file`
SaveGroupDataIn(file, group_id, group_data) == Put(file, group_id, group_data)

\* handlers.add_banned_word_command by an administrator: get_group_data,
\* the word appended if it is new, save_group_data
AddBannedWord(issuer, group_id, word, get_ok, save_ok) ==
    LET group_data == GroupDataIn(read_json(groups_file, get_ok), group_id)
        banned_words == Get(group_data, "banned_words", <<>>)
    IN  /\ StorageOps < MaxStorageOps
        /\ is_admin(chat_status[Key(issuer, group_id)], TRUE)
        /\ n_warn_ops' = n_warn_ops + 1
        /\ groups_file' =
              IF word \in SeqRange(banned_words) THEN groups_file
              ELSE SaveGroupDataIn(read_json(groups_file, save_ok), group_id,
                                   Put(group_data, "banned_words",
                                       Append(banned_words, word)))
        /\ warn_ret' = [op |-> "addword", user |-> issuer, group |-> group_id,
                        count |-> 0, action |-> None]
        /\ UNCHANGED <<handling_vars, now, spam_file, verdict, flood_seq, ladder,
                       n_checked, captcha_vars, subscription_vars>>

\* StorageManager.log_action, as the moderation commands call it
LogAction(group_id, admin_id, target_user, read_ok) ==
    /\ StorageOps < MaxStorageOps
    /\ n_warn_ops' = n_warn_ops + 1
    /\ groups_file' = LogActionIn(read_json(groups_file, read_ok), group_id, now,
                                  admin_id, "kick", target_user, <<>>)
    /\ warn_ret' = [op |-> "log_action", user |-> target_user, group |-> group_id,
                    count |-> 0, action |-> None]
    /\ UNCHANGED <<handling_vars, now, spam_file, verdict, flood_seq, ladder,
                   n_checked, captcha_vars, subscription_vars>>

StorageNext ==
    \/ \E u \in Users, g \in DetectorGroups, m \in ModerationMessages,
          reads \in ReadOutcomes :
          StorageOps < MaxStorageOps /\ EvaluateReading(u, g, m, reads)
    \/ \E u \in Users, g \in DetectorGroups, reset \in BOOLEAN,
          get_ok \in BOOLEAN, save_ok \in BOOLEAN :
          WarningsReading(u, g, reset, get_ok, save_ok)
    \/ \E g \in Groups, get_ok \in BOOLEAN, save_ok \in BOOLEAN :
          AddBannedWord("u2", g, TextHi, get_ok, save_ok)
    \/ \E g \in Groups, read_ok \in BOOLEAN : LogAction(g, "u2", "u1", read_ok)

SpecStorage == StorageInit /\ [][StorageNext]_vars

\* the step is an evaluation, or else one of the other operations
EvaluationStep == n_checked' # n_checked

\* C23: an operation on one (user, group) key or on one group leaves the
\* stored record of every other key of spam_data.json and of every other
\* group of groups.json as it was, whatever the reads of the files return.
C23_OtherKeysUntouched ==
    [][LET group == IF EvaluationStep THEN verdict'.group ELSE warn_ret'.group
           user == IF EvaluationStep THEN verdict'.user ELSE warn_ret'.user
       IN  /\ \A k \in AllKeys :
                 k # Key(user, group) => StoredIn(spam_file', k) = StoredIn(spam_file, k)
           /\ \A g \in Groups :
                 g # group => StoredIn(groups_file', g) = StoredIn(groups_file, g)]_vars

(***************************************************************************)
(* handle_messages acting on its verdict: the message is deleted, the user *)
(* is muted or warned (and banned), and the audit entry is written.  Each  *)
(* platform call returns or raises.                                        *)
(***************************************************************************)
\* what five messages "hi" within the last second have left in the file
FloodHistory == <<TextHi, TextHi, TextHi, TextHi, TextHi>>

PunishMessages ==
    { Msg(TextSpam, NoMedia, NoForward),
      Msg(TextHi, NoMedia, NoForward),
      Msg(TextSpamLink, NoMedia, NoForward) }

\* the calls of lines 509-543 that may raise: the first one that does, or
\* none.  "permissions" is context.bot.get_chat_permissions, whose error is
\* no TelegramError and leaves the handler
PunishFailures ==
    {"none", "delete", "permissions", "restrict", "notice", "ban", "ban_notice"}

\* a user of g1 with warnings on file, flooding or not, under `statuses`
PunishStart(statuses) ==
    /\ in_flight = [h \in Handlers |-> IdleCall]
    /\ filter_ret = NoFilterRet
    /\ CallsFresh
    /\ now = StartTime
    /\ \E flooding \in BOOLEAN, w \in 0..(MAX_WARNINGS - 1) :
          /\ spam_file =
                IF ~flooding /\ w = 0 THEN <<>>
                ELSE [k \in {Key("u1", "g1")} |->
                        [message_count |-> IF flooding THEN FLOOD_LIMIT ELSE 1,
                         last_message_time |->
                             IF flooding THEN StartTime - 1
                             ELSE StartTime - (FloodWindow + 1),
                         recent_messages |-> FloodHistory, warnings |-> w]]
          /\ flood_seq =
                [k \in AllKeys |->
                    IF (flooding \/ w # 0) /\ k = Key("u1", "g1")
                    THEN [n |-> Len(FloodHistory),
                          first |-> StartTime - (FloodWindow + 1),
                          start |-> IF flooding THEN StartTime - 1
                                    ELSE StartTime - (FloodWindow + 1)]
                    ELSE [n |-> 0, first |-> 0, start |-> 0]]
          /\ evaluated =
                [k \in AllKeys |->
                    IF (flooding \/ w # 0) /\ k = Key("u1", "g1")
                    THEN [texts |-> FloodHistory,
                          run |-> IF flooding THEN FLOOD_LIMIT ELSE 1,
                          last |-> IF flooding THEN StartTime - 1
                                   ELSE StartTime - (FloodWindow + 1)]
                    ELSE [texts |-> <<>>, run |-> 0, last |-> 0]]
    /\ verdict = NoVerdict
    /\ warn_ret = NoWarnRet
    /\ ladder = [k \in AllKeys |-> [n |-> 0, resets |-> 0, peak |-> 0]]
    /\ n_checked = 0
    /\ n_warn_ops = 0
    /\ groups_file \in InitialGroupsFiles
    /\ pending_users = <<>>
    /\ chat_status = statuses
    /\ handler = IdleHandler
    /\ ret = NoRet
    /\ sweep = IdleSweep
    /\ outcomes = [lifted |-> {}, solved |-> {}, banned |-> {}, removed |-> {},
                   wrong |-> [u \in Users |-> 0]]
    /\ n_created = 0
    /\ n_answers = 0
    /\ n_sweeps = 0
    /\ SubscriptionFresh

PunishInit ==
    PunishStart([k \in AllKeys |-> IF k[1] = "g1" THEN "member" ELSE "left"])

\* handle_messages, lines 507-562, from the await of message.delete() to the
\* return: the calls are made in the code's order up to the one that raises
Punish(h, fails_at) ==
    LET call == in_flight[h]
        k == Key(call.user_id, call.chat_id)
        spam_data == get_spam_data(call.user_id, call.chat_id)
        warnings == spam_data.warnings + 1
        mute == call.action = "mute"
        warn == call.action = "warn"
        deleted == fails_at # "delete"
        restricted == deleted /\ mute /\ fails_at \notin {"permissions", "restrict"}
        counted == deleted /\ warn
        ban_due == counted /\ fails_at # "notice" /\ warnings >= 3
        banned == ban_due /\ fails_at # "ban"
        \* every call of the branch taken has returned
        done == /\ deleted
                /\ mute => (restricted /\ fails_at # "notice")
                /\ warn => fails_at # "notice"
                /\ ban_due => (banned /\ fails_at # "ban_notice")
    IN  /\ call.pc = "delete"
        /\ \/ fails_at \in {"none", "delete"}
           \/ mute /\ fails_at \in {"permissions", "restrict", "notice"}
           \/ warn /\ fails_at = "notice"
           \/ warn /\ warnings >= 3 /\ fails_at \in {"ban", "ban_notice"}
        /\ in_flight' = [in_flight EXCEPT ![h] = IdleCall]
        /\ spam_file' =
              IF counted
              THEN SaveSpamDataIn(spam_file, call.user_id, call.chat_id,
                                  [spam_data EXCEPT !.warnings = warnings])
              ELSE spam_file
        /\ chat_status' =
              IF restricted
              THEN restrict_chat_member(chat_status, call.user_id, call.chat_id, FALSE)
              ELSE IF banned
              THEN ban_chat_member(chat_status, call.user_id, call.chat_id)
              ELSE chat_status
        /\ groups_file' =
              IF done
              THEN LogActionIn(groups_file, call.chat_id, now, "bot",
                               <<"spam_detection_", call.action>>, call.user_id,
                               call.reasons)
              ELSE groups_file
        /\ handled' = [user |-> call.user_id, group |-> call.chat_id,
                       action |-> call.action, fails_at |-> fails_at,
                       warnings |-> IF counted THEN warnings ELSE 0]
        /\ UNCHANGED <<now, verdict, warn_ret, flood_seq, ladder, n_checked, n_warn_ops,
                       pending_users, handler, ret, sweep, outcomes, n_created,
                       n_answers, n_sweeps, subscription_vars, evaluated, filter_ret,
                       challenge, command_ret, sweepers>>

PunishNext ==
    \/ \E u \in DetectorUsers, g \in DetectorGroups, m \in PunishMessages :
          HandleStart("h1", u, g, m)
    \/ \E found \in BOOLEAN : HandleCheck("h1", found)
    \/ \E fails_at \in PunishFailures : Punish("h1", fails_at)

SpecPunish == PunishInit /\ [][PunishNext]_vars

\* a step in which handle_messages has acted on the verdict of its message
Punished == in_flight["h1"].pc = "delete" /\ in_flight'["h1"].pc = "idle"

\* C31: when handle_messages acts on a violation and the deletion of the
\* message fails, the recommended action is applied all the same (the user
\* is muted, or the warning count is raised) and the audit entry is written.
C31_FailedDeleteStillActs ==
    [][(Punished /\ handled'.fails_at = "delete") =>
          LET call == in_flight["h1"]
              k == Key(call.user_id, call.chat_id)
          IN  /\ Len(LogOf(groups_file', call.chat_id))
                    = Len(LogOf(groups_file, call.chat_id)) + 1
              /\ call.action = "mute" => chat_status'[k] = "restricted"
              /\ call.action = "warn" =>
                    WarningsOf(spam_file', k) = WarningsOf(spam_file, k) + 1]_vars

\* C34: when handle_messages executes a warn verdict and every platform call
\* returns, the punishment follows get_warning_action of the new warning
\* count: the first warning leaves the member as they are, the second mutes
\* them, and a count of MAX_WARNINGS or more bans them.
C34_WarnVerdictClimbsLadder ==
    [][(Punished /\ in_flight["h1"].action = "warn" /\ handled'.fails_at = "none") =>
          LET call == in_flight["h1"]
              k == Key(call.user_id, call.chat_id)
              tier == get_warning_action(WarningsOf(spam_file', k))
          IN  /\ WarningsOf(spam_file', k) = WarningsOf(spam_file, k) + 1
              /\ tier = "warn" => chat_status'[k] = chat_status[k]
              /\ tier = "mute" => chat_status'[k] = "restricted"
              /\ tier = "ban" => chat_status'[k] = "kicked"]_vars

(***************************************************************************)
(* Arithmetic captchas: _generate_math_captcha for each difficulty, and    *)
(* the loop of create_captcha_for_user that draws the options to offer.    *)
(***************************************************************************)
\* the values of max_num in difficulty_settings
MaxNums == {difficulty_settings(d).max_num : d \in {"easy", "medium", "hard"}}

\* the operands the model draws: the least ones and the ends of each range
\* of random.randint
OperandSamples(max_num) == {1, 2, max_num \div 10, max_num \div 2, max_num}

MathDraws(max_num) ==
    {d \in [operation : {"+", "-", "*"}, a : OperandSamples(max_num),
            b : OperandSamples(max_num)] : DrawInRange(d, max_num)}

\* the values of random.randint(-10, 10) the model draws: the two ends, zero
\* and its neighbours
OffsetSamples == {-10, -1, 0, 1, 2, 10}

\* int(s) of a decimal string
RECURSIVE StrToInt(_)
StrToInt(s) ==
    IF s = <<>> THEN 0
    ELSE 10 * StrToInt(SubSeq(s, 1, Len(s) - 1))
         + (CHOOSE n \in 0..9 : Digits[n + 1] = s[Len(s)])

\* the orders random.shuffle may leave four options in
OptionOrders ==
    {q \in [1..4 -> 1..4] : \A i, j \in 1..4 : q[i] = q[j] => i = j}

MathInit ==
    /\ HandlingFresh
    /\ DetectorFresh
    /\ groups_file = <<>>
    /\ CaptchaFresh
    /\ SubscriptionFresh

\* lines 83 and 96-98: a captcha is drawn and the loop starts with the
\* correct answer as the only option; a behaviour follows one captcha
GenerateMath(max_num, d) ==
    LET captcha == generate_math_captcha(d)
    IN  /\ challenge.pc = "idle"
        /\ DrawInRange(d, max_num)
        /\ challenge' = [pc |-> "loop", operation |-> d.operation, a |-> d.a,
                         b |-> d.b, max_num |-> max_num,
                         question |-> captcha.question, answer |-> captcha.answer,
                         options |-> <<StrToInt(captcha.answer)>>]
        /\ UNCHANGED <<now, detector_vars, captcha_vars, subscription_vars,
                       in_flight, evaluated, filter_ret, handled, command_ret, sweepers>>

\* a faulty variant: an option already offered is taken again
OptionTakenTwice(options, correct_answer, wrong) ==
    wrong # correct_answer /\ wrong >= 0

\* line 103: the test a drawn value passes to become an option
OptionTaken(options, correct_answer, wrong) ==
    /\ wrong # correct_answer
    /\ wrong \notin SeqRange(options)
    /\ wrong >= 0

\* lines 101-104: one turn of the loop, with the offset random.randint gave
OptionDraw(offset) ==
    LET correct_answer == StrToInt(challenge.answer)
        wrong == correct_answer + offset
    IN  /\ challenge.pc = "loop"
        /\ Len(challenge.options) < 4
        /\ challenge' =
              IF OptionTaken(challenge.options, correct_answer, wrong)
              THEN [challenge EXCEPT !.options = Append(@, wrong)]
              ELSE challenge
        /\ UNCHANGED <<now, detector_vars, captcha_vars, subscription_vars,
                       in_flight, evaluated, filter_ret, handled, command_ret, sweepers>>

\* the turns of the loop that add an option
OptionAdded ==
    \E offset \in OffsetSamples :
        OptionDraw(offset) /\ challenge'.options # challenge.options

\* lines 100 and 106: the loop ends with four options, which are shuffled
OptionsShuffle(order) ==
    /\ challenge.pc = "loop"
    /\ Len(challenge.options) >= 4
    /\ challenge' = [challenge EXCEPT
                        !.pc = "offered",
                        !.options = [i \in 1..4 |-> challenge.options[order[i]]]]
    /\ UNCHANGED <<now, detector_vars, captcha_vars, subscription_vars,
                   in_flight, evaluated, filter_ret, handled, command_ret, sweepers>>

MathNext ==
    \/ \E max_num \in MaxNums : \E d \in MathDraws(max_num) : GenerateMath(max_num, d)
    \/ \E offset \in OffsetSamples : OptionDraw(offset)
    \/ \E order \in OptionOrders : OptionsShuffle(order)

SpecMath == MathInit /\ [][MathNext]_vars

\* random.randint comes back, sooner or later, with an offset the loop takes
\* whenever there is one; the loop then reaches its end
SpecMathLive ==
    MathInit /\ [][MathNext]_vars
    /\ SF_vars(OptionAdded)
    /\ WF_vars(\E order \in OptionOrders : OptionsShuffle(order))

\* the blank-separated words of a text
RECURSIVE Words(_)
Words(s) ==
    LET blanks == {i \in 1..Len(s) : s[i] = " "}
        first == CHOOSE i \in blanks : \A j \in blanks : i <= j
    IN  IF blanks = {} THEN <<s>>
        ELSE <<SubSeq(s, 1, first - 1)>> \o Words(SubSeq(s, first + 1, Len(s)))

\* a captcha has been drawn
Drawn == challenge.pc # "idle"

\* C32: for each max_num of the difficulty settings, the expected answer of
\* an arithmetic captcha is the decimal string of the result of the operation
\* that the question shows, both operands are at least 1, and the result is
\* not negative: the minuend of a subtraction is at least the subtrahend.
C32_AnswerIsResultOfQuestion ==
    Drawn =>
        LET words == Words(challenge.question)
            a == StrToInt(words[3])
            sign == words[4][1]
            b == StrToInt(SubSeq(words[5], 1, Len(words[5]) - 1))
            result == CASE sign = "+" -> a + b
                        [] sign = "-" -> a - b
                        [] sign = TimesSign -> a * b
        IN  /\ challenge.max_num \in {10, 50, 100}
            /\ Len(words) = 5
            /\ SubSeq(challenge.question, 1, Len(WhatIs)) = WhatIs
            /\ words[5][Len(words[5])] = "?"
            /\ a = challenge.a /\ b = challenge.b
            /\ a >= 1 /\ b >= 1
            /\ sign = "-" => a >= b
            /\ result >= 0
            /\ challenge.answer = IntToStr(result)

\* a subtraction whose operands are equal has been drawn: the answer is "0"
C32_Witness ==
    /\ Drawn
    /\ challenge.operation = "-"
    /\ challenge.a = challenge.b
    /\ challenge.max_num = 100
    /\ challenge.answer = <<"0">>

\* C33: for every arithmetic captcha the loop that draws the options comes
\* to its end, and what is then offered is four pairwise distinct integers,
\* none negative: the correct answer and three others, each at most 10 away
\* from it.
C33_FourDistinctOptionsOffered ==
    /\ [](challenge.pc = "offered" =>
             LET options == challenge.options
                 correct_answer == StrToInt(challenge.answer)
             IN  /\ Len(options) = 4
                 /\ Cardinality(SeqRange(options)) = 4
                 /\ correct_answer \in SeqRange(options)
                 /\ \A option \in SeqRange(options) :
                       /\ option >= 0
                       /\ option - correct_answer \in -10..10)
    /\ (challenge.pc = "loop" ~> challenge.pc = "offered")

\* the options of a captcha whose answer is 0 have been offered
C33_Witness ==
    /\ challenge.pc = "offered"
    /\ challenge.answer = <<"0">>
    /\ Len(challenge.options) = 4

(***************************************************************************)
(* cleanup_expired_captchas, for invocations that may overlap: each gives  *)
(* way at its three platform calls, and members may rejoin meanwhile.      *)
(***************************************************************************)
\* lines 210-215: an invocation lists the expired records and awaits the
\* ban of the first; a behaviour follows one run of each invocation
RunList(s) ==
    LET expired_users == ExpiredUsers(pending_users, now)
    IN  /\ sweepers[s].pc = "idle"
        /\ CaptchaOps < MaxCaptchaOps
        /\ expired_users # <<>>
        /\ sweepers' = [sweepers EXCEPT ![s] =
                           [IdleSweep EXCEPT !.pc = "ban", !.expired = expired_users,
                                             !.i = 1, !.at = now,
                                             !.seen = pending_users]]
        /\ n_sweeps' = n_sweeps + 1
        /\ UNCHANGED <<now, detector_vars, subscription_vars, pending_users,
                       chat_status, handler, ret, sweep, outcomes, n_created,
                       n_answers, in_flight, evaluated, filter_ret, handled,
                       challenge, command_ret>>

\* line 220: ban_chat_member returns or raises
RunBan(s, ok) ==
    LET run == sweepers[s]
        e == run.expired[run.i]
    IN  /\ run.pc = "ban"
        /\ chat_status' = IF ok THEN ban_chat_member(chat_status, e.user_id, e.chat_id)
                          ELSE chat_status
        /\ sweepers' = [sweepers EXCEPT ![s] =
                           IF ok
                           THEN [run EXCEPT !.pc = "unban", !.banned = @ \cup {e.id}]
                           ELSE SweepAdvance([run EXCEPT !.failed = @ \cup {e.id}])]
        /\ UNCHANGED <<now, detector_vars, subscription_vars, pending_users, handler,
                       ret, sweep, outcomes, n_created, n_answers, n_sweeps,
                       in_flight, evaluated, filter_ret, handled, challenge,
                       command_ret>>

\* line 221: unban_chat_member returns or raises
RunUnban(s, ok) ==
    LET run == sweepers[s]
        e == run.expired[run.i]
    IN  /\ run.pc = "unban"
        /\ chat_status' = IF ok THEN unban_chat_member(chat_status, e.user_id, e.chat_id)
                          ELSE chat_status
        /\ sweepers' = [sweepers EXCEPT ![s] =
                           IF ok
                           THEN [run EXCEPT !.pc = "notify", !.unbanned = @ \cup {e.id}]
                           ELSE SweepAdvance([run EXCEPT !.failed = @ \cup {e.id}])]
        /\ UNCHANGED <<now, detector_vars, subscription_vars, pending_users, handler,
                       ret, sweep, outcomes, n_created, n_answers, n_sweeps,
                       in_flight, evaluated, filter_ret, handled, challenge,
                       command_ret>>

\* lines 224-230: send_message returns and the user's record is deleted
\* (the del raises when the record is gone), or send_message raises
RunNotify(s, ok) ==
    LET run == sweepers[s]
        e == run.expired[run.i]
        present == DictHas(pending_users, e.user_id)
    IN  /\ run.pc = "notify"
        /\ pending_users' = IF ok THEN DictDel(pending_users, e.user_id)
                            ELSE pending_users
        /\ sweepers' = [sweepers EXCEPT ![s] =
              SweepAdvance(
                  [run EXCEPT
                      !.notified = IF ok THEN @ \cup {e.id} ELSE @,
                      !.deleted = IF ok /\ present THEN @ \cup {e.id} ELSE @,
                      !.failed = IF ok /\ present THEN @ ELSE @ \cup {e.id}])]
        /\ UNCHANGED <<now, detector_vars, subscription_vars, chat_status, handler,
                       ret, sweep, outcomes, n_created, n_answers, n_sweeps,
                       in_flight, evaluated, filter_ret, handled, challenge,
                       command_ret>>

SweepsNext ==
    \/ \E t \in CaptchaInstants : CaptchaTick(t)
    \/ \E j \in CaptchaJoins, c \in CaptchaDraws : CreateStart(j[1], j[2], c)
    \/ \E ok \in BOOLEAN : CreateSend(ok)
    \/ \E ok \in BOOLEAN : CreateRestrict(ok)
    \/ \E s \in Sweepers : RunList(s)
    \/ \E s \in Sweepers, ok \in BOOLEAN : RunBan(s, ok)
    \/ \E s \in Sweepers, ok \in BOOLEAN : RunUnban(s, ok)
    \/ \E s \in Sweepers, ok \in BOOLEAN : RunNotify(s, ok)

SpecSweeps == CaptchaInit /\ [][SweepsNext]_vars

\* the invocations that have made the call `deed` for the captcha `id`
Doers(deed, id) == {s \in Sweepers : id \in sweepers[s][deed]}

\* C35: when invocations of the expiry sweep overlap, the user of an expired
\* captcha is banned, unbanned and announced at most once in total, and no
\* step of a sweep removes a record that has not expired: a member who
\* rejoined while the sweep was suspended keeps the new captcha.
C35_OverlappingSweepsActOnce ==
    /\ [](\A id \in 1..n_created :
             /\ Cardinality(Doers("banned", id)) <= 1
             /\ Cardinality(Doers("unbanned", id)) <= 1
             /\ Cardinality(Doers("notified", id)) <= 1)
    /\ [][sweepers' # sweepers =>
             \A i \in 1..Len(pending_users) :
                 ~IsExpired(now, pending_users[i].expires) =>
                     \E j \in 1..Len(pending_users') :
                         pending_users'[j] = pending_users[i]]_vars

\* C36: when create_captcha_for_user has returned False because a platform
\* call of its own failed, no pending record is left for the user it was
\* called for, and a record is pending only for a user who was sent the
\* challenge and who was restricted.
C36_NoRecordAfterFailedCreate ==
    (handler.op = "create" /\ handler.pc = "returned" /\ ~ret.ok) =>
        ~DictHas(pending_users, handler.user_id)


\* C37: when verify_new_member_subscription has returned and the user it was
\* called for is restricted in the group, a pending verification record is
\* stored for that user, also when a call of send_subscription_requirement
\* raised after the restriction.
C37_RestrictedByGateHasRecord ==
    (JoinReturned /\ chat_status[Key(task.user_id, task.chat_id)] = "restricted")
    => DictHas(pending_verification, task.user_id)


\* the expected answers that generate_captcha(CAPTCHA_DIFFICULTY) can store
ExpectedAnswers ==
    {c.answer : c \in generate_captcha(CAPTCHA_DIFFICULTY)}
    \cup {generate_math_captcha(d).answer :
              d \in MathDraws(difficulty_settings(CAPTCHA_DIFFICULTY).max_num)}

\* C38: the reply verify_captcha gives to a wrong answer does not depend on
\* the stored expected answer: whenever a wrong answer has been replied to,
\* the reply is the one every other expected answer that the submitted
\* answer does not match would have got.
C38_WrongAnswerReplyIndependentOfStored ==
    (/\ handler.op = "verify"
     /\ handler.pc = "returned"
     /\ ret.found
     /\ ~IsExpired(ret.at, ret.rec.expires)
     /\ ~AnswersEqual(ret.answer, ret.rec.answer))
    => \A stored \in ExpectedAnswers :
          ~AnswersEqual(ret.answer, stored) =>
              IncorrectReply(Strip(Lower(stored)))
                  = [msg |-> ret.msg, revealed |-> ret.revealed]


(***************************************************************************)
(* The settings toggles of handle_callback_query, and the messages that    *)
(* handle_messages evaluates under the settings they leave.                *)
(***************************************************************************)
\* toggles pressed in a run
MaxToggles == 2

\* the setting each "toggle_<type>_<chat>" button names
SettingTypes == {"antispam", "welcome", "flood"}

SettingKey(setting_type) ==
    CASE setting_type = "antispam" -> "anti_spam_enabled"
      [] setting_type = "welcome" -> "welcome_enabled"
      [] OTHER -> "flood_protection"

\* u2 administers g1, where u1 writes
ToggleInit ==
    PunishStart([k \in AllKeys |->
                    IF k = Key("u2", "g1") THEN "administrator"
                    ELSE IF k[1] = "g1" THEN "member" ELSE "left"])

\* handle_callback_query on "toggle_...": an administrator's press flips the
\* setting and saves the group; is_admin may raise (`found` is false)
ToggleSetting(issuer, setting_type, chat_id, found) ==
    LET group_data == get_group_data(chat_id)
        settings == Get(group_data, "settings", <<>>)
        key == SettingKey(setting_type)
        toggled == Put(settings, key, ~Get(settings, key, TRUE))
    IN  /\ n_warn_ops < MaxToggles
        /\ n_warn_ops' = n_warn_ops + 1
        /\ groups_file' =
              IF is_admin(chat_status[Key(issuer, chat_id)], found)
              THEN SaveGroupDataIn(groups_file, chat_id,
                                   Put(group_data, "settings", toggled))
              ELSE groups_file
        /\ UNCHANGED <<now, spam_file, verdict, warn_ret, flood_seq, ladder,
                       n_checked, captcha_vars, subscription_vars, handling_vars>>

ToggleNext ==
    \/ \E issuer \in Users, t \in SettingTypes, found \in BOOLEAN :
          ToggleSetting(issuer, t, "g1", found)
    \/ \E u \in DetectorUsers, g \in DetectorGroups, m \in PunishMessages :
          HandleStart("h1", u, g, m)
    \/ \E found \in BOOLEAN : HandleCheck("h1", found)
    \/ \E fails_at \in PunishFailures : Punish("h1", fails_at)

SpecToggle == ToggleInit /\ [][ToggleNext]_vars

\* the group's flood_protection setting, as settings.get reads it
FloodProtection(group_id) ==
    Get(Get(get_group_data(group_id), "settings", <<>>), "flood_protection", TRUE)

\* C39: while the flood_protection setting of a group is false, no message
\* that handle_messages evaluates in the group gets the reason 'flooding',
\* and none is muted on that reason.
C39_FloodProtectionOffSilencesFlood ==
    [][(/\ in_flight["h1"].pc = "is_admin"
        /\ in_flight'["h1"].pc # "is_admin"
        /\ ~FloodProtection(in_flight["h1"].chat_id))
       => "flooding" \notin SeqRange(in_flight'["h1"].reasons)]_vars


(***************************************************************************)
(* The moderation commands /ban, /mute and /kick.                          *)
(***************************************************************************)
\* commands issued in a run
MaxCommands == 2

ModerationCommands == {"ban", "mute", "kick"}

\* the bot's own member id in chat_status
BotId == "bot"

\* the roles the issuer, the target and the bot may hold in the group
TargetRoles == {"member", "administrator", "creator"}

BotRoles == {"member", "administrator"}

\* the calls after the checks that may raise: the first one that does, or
\* none.  "permissions" is context.bot.get_chat_permissions of /mute, "act"
\* is ban_chat_member or restrict_chat_member, "unban" the second call of
\* /kick, "reply" the confirmation
CommandFailures == {"none", "permissions", "act", "unban", "reply"}

\* utils.is_bot_admin: the bot's status is ADMINISTRATOR or OWNER; a lookup
\* that raises gives False
is_bot_admin(status, found) == found /\ status \in {"administrator", "creator"}

CommandsInit ==
    /\ HandlingFresh
    /\ DetectorFresh
    /\ groups_file \in InitialGroupsFiles
    /\ pending_users = <<>>
    /\ \E issuer_role \in IssuerRoles, target_role \in TargetRoles,
          bot_role \in BotRoles :
          chat_status =
             [k \in AllKeys \cup {Key(BotId, "g1")} |->
                 IF k = Key("u2", "g1") THEN issuer_role
                 ELSE IF k = Key("u1", "g1") THEN target_role
                 ELSE IF k = Key(BotId, "g1") THEN bot_role
                 ELSE "left"]
    /\ handler = IdleHandler
    /\ ret = NoRet
    /\ sweep = IdleSweep
    /\ outcomes = [lifted |-> {}, solved |-> {}, banned |-> {}, removed |-> {},
                   wrong |-> [u \in Users |-> 0]]
    /\ n_created = 0
    /\ n_answers = 0
    /\ n_sweeps = 0
    /\ SubscriptionFresh

\* ban_command, mute_command and kick_command, from the message to the
\* return.  `target` is the user the argument names (None: no argument);
\* each get_chat_member lookup returns or raises (found_*), and so does each
\* call after the checks (fails_at).  The platform never bans or restricts
\* the owner of a chat.
ModerationCommand(command, issuer, target, group, private, found_issuer, found_bot, found_user, found_target, fails_at) ==
    LET passed == is_admin(chat_status[Key(issuer, group)], found_issuer)
        bot_ok == is_bot_admin(chat_status[Key(BotId, group)], found_bot)
        target_user == IF target # None /\ found_user THEN target ELSE None
        protected == /\ target_user # None
                     /\ is_admin(chat_status[Key(target, group)], found_target)
        reached == ~private /\ passed /\ bot_ok /\ target_user # None /\ ~protected
        acted == /\ reached
                 /\ fails_at \notin {"permissions", "act"}
        unbanned == acted /\ command = "kick" /\ fails_at # "unban"
        logged == acted /\ (command = "kick" => unbanned)
    IN  /\ n_warn_ops < MaxCommands
        /\ \/ fails_at \in {"none", "act", "reply"}
           \/ command = "mute" /\ fails_at = "permissions"
           \/ command = "kick" /\ fails_at = "unban"
        /\ (reached /\ chat_status[Key(target, group)] = "creator") =>
              fails_at \in {"permissions", "act"}
        /\ n_warn_ops' = n_warn_ops + 1
        /\ chat_status' =
              IF ~acted THEN chat_status
              ELSE IF command = "mute"
              THEN restrict_chat_member(chat_status, target, group, FALSE)
              ELSE IF unbanned
              THEN unban_chat_member(ban_chat_member(chat_status, target, group),
                                     target, group)
              ELSE ban_chat_member(chat_status, target, group)
        /\ groups_file' =
              IF logged
              THEN LogActionIn(groups_file, group, now, issuer, command, target,
                               <<>>)
              ELSE groups_file
        /\ command_ret' = [command |-> command, issuer |-> issuer,
                           target |-> target, group |-> group, acted |-> acted]
        /\ UNCHANGED <<now, spam_file, verdict, warn_ret, flood_seq, ladder,
                       n_checked, pending_users, handler, ret, sweep, outcomes,
                       n_created, n_answers, n_sweeps, subscription_vars, in_flight,
                       evaluated, filter_ret, handled, challenge, sweepers>>

CommandsNext ==
    \E command \in ModerationCommands, issuer \in Users, target \in Users \cup {None},
       private \in BOOLEAN, found_issuer \in BOOLEAN, found_bot \in BOOLEAN,
       found_user \in BOOLEAN, found_target \in BOOLEAN,
       fails_at \in CommandFailures :
        ModerationCommand(command, issuer, target, "g1", private, found_issuer,
                          found_bot, found_user, found_target, fails_at)

SpecCommands == CommandsInit /\ [][CommandsNext]_vars

AdminRoles == {"administrator", "creator"}

\* C40: /ban, /mute and /kick ban or restrict a member, and write an entry
\* to the action log, only when the issuer is an administrator or the owner
\* of the group, the bot is an administrator, and the target is neither an
\* administrator nor the owner; otherwise nothing is done and nothing logged.
C40_CommandsActOnlyWhenAuthorised ==
    [][(/\ n_warn_ops' # n_warn_ops
        /\ \/ command_ret'.acted
           \/ LogOf(groups_file', command_ret'.group)
                 # LogOf(groups_file, command_ret'.group))
       => /\ chat_status[Key(command_ret'.issuer, command_ret'.group)] \in AdminRoles
          /\ chat_status[Key(BotId, command_ret'.group)] \in AdminRoles
          /\ chat_status[Key(command_ret'.target, command_ret'.group)]
                \notin AdminRoles]_vars

=============================================================================
